---- MODULE Spec2Model ----
(***************************************************************************)
(* Verification model of the angstrom node core:                           *)
(*   - the volume-fill matcher (matching-engine/src/matcher/volume.rs,     *)
(*     matching-engine/src/book/order.rs),                                 *)
(*   - the BidAggregation round state (consensus/src/rounds/               *)
(*     bid_aggregation.rs),                                                *)
(*   - the BLS Commit (types/src/consensus/commit.rs).                     *)
(* Each subsystem has its own specification over its own variables; the    *)
(* variables of the other subsystems stay at their initial value.          *)
(***************************************************************************)
EXTENDS Integers, Sequences, FiniteSets, TLC

VARIABLES
    book,       \* the OrderBook the matcher borrows: bids, asks, amm snapshot
    matcher,    \* the VolumeFillMatcher: all of its fields, checkpoint included
    reason,     \* what the last matcher call returned ("None" = no end reason)
    last        \* "new" after new(), then whether the last call changed the matcher

matcherVars == <<book, matcher, reason, last>>

VARIABLES
    round,          \* the ConsensusState the round is in, with what it was built from
    ba,             \* BidAggregationState: the two accumulated sets and the proposal
    ba_timeout,     \* the transition_timeout Sleep: "pending" or "elapsed"
    ba_registered,  \* whether the Sleep holds the task's waker (it was polled)
    woken,          \* whether the consensus task is scheduled to be polled
    block_height,   \* handles.block_height
    accepted,       \* history: the proposals verify_proposal accepted, in order
    inserted,       \* history: the PreProposals and aggregations put into the sets
    rejected        \* history: whether verify_proposal rejected a Proposal

bidVars == <<round, ba, ba_timeout, ba_registered, woken, block_height, accepted,
             inserted, rejected>>

VARIABLES
    commit,         \* the Commit under construction (None before it is generated)
    signer,         \* history: the validator whose key generated the commit
    added,          \* history: the validators whose add_signature returned true
    proposal        \* history: the Proposal from_proposal built the commit from

commitVars == <<commit, signer, added, proposal>>

VARIABLES
    pm_pc,      \* where PoolManager::poll stands: the stream whose loop runs,
                \* "idle" between two polls, "dropped" once the manager is gone
    chan,       \* the five inbound streams: what was sent and not yet taken
    closed,     \* the inbound streams whose sending side is gone
    peers,      \* PoolManager.peers: per peer its StromPeer, if it is tracked
    indexer,    \* the order indexer: its block and the orders handed to it
    net_out,    \* what the last on_pool_events call handed on
    requests,   \* the PoolHandle::new_order calls: the oneshot and the future
    saw_none,   \* history: the current poll met the end of a closed stream
    poll_ret,   \* what the last poll returned
    env         \* the senders: how many items they sent, the chain's block

poolVars == <<pm_pc, chan, closed, peers, indexer, net_out, requests, saw_none,
              poll_ret, env>>

\* BundleValidator (validation/src/bundle/mod.rs)
VARIABLES
    sims        \* the simulate_bundle calls made: per call its inputs, whether
                \* its task has run, what the EVM answered and what was sent
                \* on the call's response sender

simVars == <<sims>>

\* CanonicalStateAdapter (uniswap-v4/src/uniswap/pool_providers/canonical_state_adapter.rs)
VARIABLES
    adapter,    \* the adapter the caller holds and calls get_logs on: its
                \* last_logs and last_block_number
    stream,     \* the subscribe_blocks stream: the adapter moved into it
                \* (self), the clone its last iteration wrote to (this), and
                \* whether it is open, ended or panicked
    received,   \* history: the notification the stream received last
    yielded,    \* history: the item the stream yielded last
    got         \* history: the last get_logs call, its filter and its result

adapterVars == <<adapter, stream, received, yielded, got>>

vars == <<book, matcher, reason, last, round, ba, ba_timeout, ba_registered, woken,
          block_height, accepted, inserted, rejected, commit, signer, added,
          proposal,
          pm_pc, chan, closed, peers, indexer, net_out, requests, saw_none,
          poll_ret, env, sims, adapter, stream, received, yielded, got>>

(***************************************************************************)
(* Bounds of the model                                                     *)
(***************************************************************************)
MaxPrice == 3
MaxQty == 2
MaxBook == 2
MaxOrders == 3
MaxMsgs == 2
MaxAccepted == 2
MaxHeight == 2
NumValidators == 3
MaxHash == 2
MaxAdds == 2
MaxSolutions == 1
NumPeers == 2
MaxOrderHash == 3
MaxOrderList == 2
CacheLimit == 2
MaxArrivals == 3
MaxRequests == 2
MaxClosed == 1
MaxSims == 2
MaxGas == 2
MaxLookup == 2
MaxAddress == 2
MaxFilterBlock == 1
MaxTip == 32
ChainFirsts == {0, 1}
ChainTips == {1, 2, MaxTip}

(***************************************************************************)
(* Option<T> is a sequence of length at most one                           *)
(***************************************************************************)
None == <<>>
Some(x) == <<x>>
IsSome(o) == Len(o) = 1
IsNone(o) == Len(o) = 0

Min2(a, b) == IF a <= b THEN a ELSE b
Max2(a, b) == IF a >= b THEN a ELSE b
SetMin(S) == CHOOSE x \in S : \A y \in S : x <= y

\* the element of a one-element set: { f(x) : x \in {e} } computes e once and
\* hands its value to f, the way a Rust let binding does
Only(S) == CHOOSE x \in S : TRUE

\* std::cmp::Ordering of a against b
Cmp(a, b) == IF a < b THEN "Less" ELSE IF a = b THEN "Equal" ELSE "Greater"

(***************************************************************************)
(* OrderFillState                                                          *)
(***************************************************************************)
Unfilled == [kind |-> "Unfilled", q |-> 0]
CompleteFill == [kind |-> "CompleteFill", q |-> 0]
PartialFill(n) == [kind |-> "PartialFill", q |-> n]

\* partial_fill that leaves the state as it was
PartialFillStateKept(s, n) == s

\* OrderFillState::partial_fill
PartialFillState(s, n) ==
    CASE s.kind = "Unfilled" -> PartialFill(n)
      [] s.kind = "PartialFill" -> PartialFill(s.q + n)
      [] OTHER -> s

(***************************************************************************)
(* The order book.  A book order carries its limit price, its quantity and *)
(* whether its variant is Partial (partial-safe) or Exact.                 *)
(***************************************************************************)
BookOrders == [price : 1..MaxPrice, qty : 1..MaxQty, partial : BOOLEAN]

BookSides == UNION {[1..n -> BookOrders] : n \in 0..MaxBook}

\* bids: descending price, then descending volume
SortedBids(s) ==
    \A i \in 1..(Len(s) - 1) :
        \/ s[i].price > s[i + 1].price
        \/ s[i].price = s[i + 1].price /\ s[i].qty >= s[i + 1].qty

\* asks: ascending price, then descending volume
SortedAsks(s) ==
    \A i \in 1..(Len(s) - 1) :
        \/ s[i].price < s[i + 1].price
        \/ s[i].price = s[i + 1].price /\ s[i].qty >= s[i + 1].qty

AllBooks ==
    {[bids |-> b, asks |-> a, amm |-> p] :
        b \in {s \in BookSides : SortedBids(s)},
        a \in {s \in BookSides : SortedAsks(s)},
        p \in {None} \cup {Some(x) : x \in 1..MaxPrice}}

Books == {b \in AllBooks : Len(b.bids) + Len(b.asks) <= MaxOrders}

(***************************************************************************)
(* Solution (the accumulated results) and the matcher itself               *)
(***************************************************************************)
SolutionDefault ==
    [price |-> None, total_volume |-> 0, partial_volume |-> <<0, 0>>,
     amm_volume |-> 0, amm_final_price |-> None]

\* save_checkpoint without the checkpoint: None of the copy
SaveCheckpointNested(m) == [m EXCEPT !.checkpoint = Some(m)]

\* VolumeFillMatcher::save_checkpoint
SaveCheckpoint(m) ==
    [m EXCEPT !.checkpoint = Some([m EXCEPT !.checkpoint = None])]

\* VolumeFillMatcher::new
NewMatcher(b) ==
    SaveCheckpoint(
        [bid_idx |-> 0,
         bid_outcomes |-> [i \in 1..Len(b.bids) |-> Unfilled],
         ask_idx |-> 0,
         ask_outcomes |-> [i \in 1..Len(b.asks) |-> Unfilled],
         debt |-> None,
         amm_price |-> b.amm,
         amm_outcome |-> None,
         results |-> SolutionDefault,
         checkpoint |-> None])

\* VolumeFillMatcher::from_checkpoint
FromCheckpoint(m) == m.checkpoint

\* VolumeFillMatcher::restore_checkpoint: takes the checkpoint out of the slot
\* and copies its indices, outcome vectors and AMM price into the matcher
RestoreCheckpointOp(m) ==
    IF IsNone(m.checkpoint)
    THEN [m |-> m, ret |-> FALSE]
    ELSE LET checkpoint == m.checkpoint[1]
         IN  [m |-> [m EXCEPT !.checkpoint = None,
                              !.bid_idx = checkpoint.bid_idx,
                              !.bid_outcomes = checkpoint.bid_outcomes,
                              !.ask_idx = checkpoint.ask_idx,
                              !.ask_outcomes = checkpoint.ask_outcomes,
                              !.amm_price = checkpoint.amm_price],
              ret |-> TRUE]

(***************************************************************************)
(* OrderContainer (book/order.rs).  next_order builds BookOrder and        *)
(* Composite containers, next_order_from_book builds BookOrder and AMM     *)
(* containers.  idx is the book index of a BookOrder; debt, amm and bound  *)
(* are the parts of a Composite (amm and bound also of an AMM order).      *)
(***************************************************************************)
BookContainer(side, i) ==
    [type |-> "BookOrder", idx |-> i, debt |-> None, amm |-> None, bound |-> None,
     price |-> side[i + 1].price, qty |-> side[i + 1].qty,
     partial |-> side[i + 1].partial]

\* CompositeOrder::new together with CompositeOrder::start_price: the price
\* of the debt when the composite carries one, else the AMM price
CompositeContainer(debt, amm, bound) ==
    [type |-> "Composite", idx |-> 0, debt |-> debt, amm |-> amm, bound |-> bound,
     price |-> IF IsSome(debt) THEN debt[1].price ELSE amm[1],
     qty |-> 0, partial |-> FALSE]

\* PoolPrice::order_to_target: the AMM order from the current price towards
\* the book order's price
AmmContainer(amm, bound) ==
    [type |-> "AMM", idx |-> 0, debt |-> None, amm |-> Some(amm), bound |-> bound,
     price |-> amm, qty |-> 0, partial |-> FALSE]

\* OrderContainer::is_composite
IsComposite(o) == o.type = "Composite"

\* OrderContainer::is_amm
IsAmm(o) == IF o.type = "Composite" THEN IsSome(o.amm) ELSE o.type = "AMM"

\* OrderContainer::is_debt
IsDebt(o) == IF o.type = "Composite" THEN IsSome(o.debt) ELSE FALSE

\* OrderContainer::is_partial
IsPartial(o) == o.type = "BookOrder" /\ o.partial

\* OrderContainer::price
Price(o) == o.price

\* A composite or AMM order moves its price from its start towards its bound
\* and never past the target: MovesDown says in which direction, Reach how
\* far (one unit of token0 per unit of price, for the AMM and for the debt).
MovesDown(o, target) ==
    IF IsSome(o.bound) /\ o.bound[1] # o.price
    THEN o.bound[1] < o.price
    ELSE target < o.price

ReachTo(o, target, x) ==
    IF MovesDown(o, target)
    THEN (IF x < o.price THEN o.price - x ELSE 0)
    ELSE (IF x > o.price THEN x - o.price ELSE 0)

Reach(o, target) ==
    IF IsSome(o.bound)
    THEN Min2(ReachTo(o, target, o.bound[1]), ReachTo(o, target, target))
    ELSE ReachTo(o, target, target)

\* OrderContainer::quantity: a book order offers its own quantity whatever the
\* target; the AMM part offers what it can sell before the target price; the
\* debt part offers quantity only when its price moves down (bid side)
Quantity(o, target) ==
    IF o.type = "BookOrder" THEN o.qty
    ELSE (IF IsSome(o.amm) THEN Reach(o, target) ELSE 0)
         + (IF IsSome(o.debt) /\ MovesDown(o, target) THEN Reach(o, target) ELSE 0)

\* OrderContainer::negative_quantity: what the debt of a Composite needs to
\* move up to the bound; zero for every other order
NegativeQuantity(o, target) ==
    IF o.type = "Composite" /\ IsSome(o.debt) /\ ~MovesDown(o, target)
    THEN Reach(o, target)
    ELSE 0

\* OrderContainer::amm_intersect: only the AMM variant intersects with the
\* debt (the AMM quantity that brings the AMM price to the debt's price);
\* every other variant, Composite included, answers Ok(0)
AmmIntersect(o, debt) ==
    IF o.type = "AMM"
    THEN (IF debt.price >= o.price THEN debt.price - o.price ELSE o.price - debt.price)
    ELSE 0

\* set_price that leaves the debt where it was
DebtSetPriceKept(d, p) == d

\* Debt::set_price
DebtSetPrice(d, p) == [d EXCEPT !.price = p]

\* partial_fill moving the debt's price down
DebtPartialFillDown(d, q) == [d EXCEPT !.price = d.price - q]

\* Debt::partial_fill: absorbing q moves the debt's price up by q
DebtPartialFill(d, q) == [d EXCEPT !.price = d.price + q]

(***************************************************************************)
(* VolumeFillMatcher::next_order.  The result names what was selected      *)
(* (kind "order", "none" or "panic"), the order, and the value the index   *)
(* Cell holds afterwards.                                                  *)
(***************************************************************************)
\* the scan of next_order and next_order_from_book for the next Unfilled entry
FirstUnfilled(idx, fs) ==
    LET cand == {i \in idx..(Len(fs) - 1) : fs[i + 1].kind = "Unfilled"}
    IN  IF cand # {} THEN SetMin(cand) ELSE Max2(idx, Len(fs))

NoOrder == BookContainer(<<[price |-> 0, qty |-> 0, partial |-> FALSE]>>, 0)

\* the tail of next_order with the AMM winning a tie with the book order
AmmOrBookTies(is_bid, idx, amm, side, fs) ==
    LET cur == FirstUnfilled(idx, fs)
        has_book == cur < Len(side)
        more == IF is_bid THEN "Greater" ELSE "Less"
        bound == IF has_book THEN Some(side[cur + 1].price) ELSE None
    IN  IF IsSome(amm) /\ (~has_book \/ Cmp(side[cur + 1].price, amm[1]) # more)
        THEN [kind |-> "order", o |-> CompositeContainer(None, amm, bound), idx |-> idx]
        ELSE IF has_book
        THEN [kind |-> "order", o |-> BookContainer(side, cur), idx |-> cur]
        ELSE [kind |-> "none", o |-> NoOrder, idx |-> cur]

\* the tail of next_order: the AMM when it beats the book order, else the book
AmmOrBook(is_bid, idx, amm, side, fs) ==
    LET cur == FirstUnfilled(idx, fs)
        has_book == cur < Len(side)
        less == IF is_bid THEN "Less" ELSE "Greater"
        bound == IF has_book THEN Some(side[cur + 1].price) ELSE None
    IN  IF IsSome(amm) /\ (~has_book \/ Cmp(side[cur + 1].price, amm[1]) = less)
        THEN [kind |-> "order", o |-> CompositeContainer(None, amm, bound), idx |-> idx]
        ELSE IF has_book
        THEN [kind |-> "order", o |-> BookContainer(side, cur), idx |-> cur]
        ELSE [kind |-> "none", o |-> NoOrder, idx |-> cur]

NextOrder(is_bid, idx, debt, amm, side, fs) ==
    LET cur == FirstUnfilled(idx, fs)
        has_book == cur < Len(side)
        less == IF is_bid THEN "Less" ELSE "Greater"
        more == IF is_bid THEN "Greater" ELSE "Less"
    IN  IF IsNone(debt) THEN AmmOrBook(is_bid, idx, amm, side, fs)
        ELSE
        LET d == debt[1]
            dbc == IF has_book THEN Cmp(d.price, side[cur + 1].price) ELSE more
            dac == IF IsSome(amm) THEN Cmp(d.price, amm[1]) ELSE more
        IN  IF dbc = less \/ dbc = "Equal" THEN AmmOrBook(is_bid, idx, amm, side, fs)
            ELSE IF dac = "Equal"
            THEN [kind |-> "order", idx |-> idx,
                  o |-> CompositeContainer(debt, amm,
                            IF has_book THEN Some(side[cur + 1].price) ELSE None)]
            ELSE IF dac = more
            THEN [kind |-> "order", idx |-> idx,
                  o |-> CompositeContainer(debt, None,
                            IF has_book
                            THEN (IF IsSome(amm)
                                  THEN Some(Max2(side[cur + 1].price, amm[1]))
                                  ELSE Some(side[cur + 1].price))
                            ELSE amm)]
            ELSE [kind |-> "panic", o |-> NoOrder, idx |-> idx]

(***************************************************************************)
(* VolumeFillMatcher::fill_amm.  d_t0 and from_price_range may fail (the   *)
(* AMM math overflows or leaves the liquidity the snapshot holds): ok says *)
(* whether they succeed.  A failure returns before anything is written.    *)
(* SellingT0 moves the AMM price up, BuyingT0 moves it down.               *)
(***************************************************************************)
\* NetAmmOrder::new and NetAmmOrder::add_quantity
AddAmmQuantity(outcome, is_bid, q) ==
    IF IsSome(outcome)
    THEN Some([outcome[1] EXCEPT !.t0 = @ + q])
    ELSE Some([is_bid |-> is_bid, t0 |-> q])

FillAmm(m, quantity, direction, ok) ==
    IF ~ok THEN [ok |-> FALSE, m |-> m]
    ELSE
    LET new_amm == IF direction = "SellingT0"
                   THEN m.amm_price[1] + quantity
                   ELSE m.amm_price[1] - quantity
    IN  [ok |-> TRUE,
         m |-> [m EXCEPT
                  !.amm_price = Some(new_amm),
                  !.results.amm_volume = @ + quantity,
                  !.results.amm_final_price = Some(new_amm),
                  !.amm_outcome = AddAmmQuantity(@, direction = "BuyingT0", quantity)]]

\* what a matcher call hands back: the matcher afterwards and the end reason
\* ("None" when single_match returns None, "Panic" when the call panics)
Ret(m, r) == [m |-> m, r |-> r]

\* self.ask_outcomes[self.ask_idx.get()] = v, and the same for bids: indexing
\* past the end of the vector panics
InRange(fs, idx) == idx < Len(fs)
SetOutcome(fs, idx, v) == [fs EXCEPT ![idx + 1] = v]

(***************************************************************************)
(* single_match, the ask-side fill of a zero-quantity debt ask             *)
(* (volume.rs 181-286)                                                     *)
(***************************************************************************)
\* the three arms of match next_ask_q.cmp(&cur_ask_q) (volume.rs 223-285)
DebtAskArms(m, fa, next_ask, next_ask_q, cur_ask_q, matched) ==
    LET is_book == ~IsAmm(next_ask) /\ ~IsComposite(next_ask)
        m1 == fa.m
        p == Price(next_ask)
        moved == IF IsSome(m1.debt) THEN Some(DebtSetPrice(m1.debt[1], p)) ELSE None
        filled == IF IsSome(m1.debt)
                  THEN Some(DebtPartialFill(m1.debt[1], matched)) ELSE None
    IN  IF cur_ask_q = 0 THEN Ret(m, "ErrorEncountered")
        ELSE IF ~fa.ok THEN Ret(m, "ErrorEncountered")
        ELSE IF next_ask_q = cur_ask_q
        THEN Ret(SaveCheckpoint(
                    [m1 EXCEPT
                      !.results.price = Some(p),
                      !.ask_outcomes = IF is_book
                                       THEN SetOutcome(@, m1.ask_idx, CompleteFill)
                                       ELSE @,
                      !.debt = moved]), "None")
        ELSE IF next_ask_q > cur_ask_q
        THEN Ret([m1 EXCEPT
                    !.results.price = Some(p),
                    !.debt = moved,
                    !.ask_outcomes =
                        IF is_book
                        THEN SetOutcome(@, m1.ask_idx,
                                 PartialFillState(@[m1.ask_idx + 1], matched))
                        ELSE @], "None")
        ELSE Ret(SaveCheckpoint(
                    [m1 EXCEPT
                      !.debt = filled,
                      !.ask_outcomes = IF is_book
                                       THEN SetOutcome(@, m1.ask_idx, CompleteFill)
                                       ELSE @]), "None")

\* the quantities of the debt ask and of the ask behind it (volume.rs 195-222)
DebtAskNext(m, bid, ask, next_ask, ammOk) ==
    IF Price(next_ask) > Price(bid) THEN Ret(m, "NoLongerCross")
    ELSE
    LET normal_next_q == Quantity(next_ask, Price(bid))
        next_ask_q == IF IsAmm(next_ask) /\ IsSome(m.debt)
                      THEN Min2(AmmIntersect(next_ask, m.debt[1]), normal_next_q)
                      ELSE normal_next_q
        cur_ask_q == NegativeQuantity(ask, Price(bid))
        matched == Min2(next_ask_q, cur_ask_q)
    IN  Only({DebtAskArms(m, fa, next_ask, next_ask_q, cur_ask_q, matched) :
                fa \in {IF (IsAmm(ask) \/ IsAmm(next_ask)) /\ IsSome(m.amm_price)
                        THEN FillAmm(m, matched, "SellingT0", ammOk)
                        ELSE [ok |-> TRUE, m |-> m]}})

DebtAskFill(b, m0, bid, ask, ammOk) ==
    Only({IF nn.kind # "order" THEN Ret(m, "NoMoreAsks")
          ELSE DebtAskNext(m, bid, ask, nn.o, ammOk) :
            <<nn, m>> \in
              {<<n, [m0 EXCEPT !.ask_idx = n.idx]>> :
                 n \in {NextOrder(FALSE, m0.ask_idx, None, m0.amm_price,
                                  b.asks, m0.ask_outcomes)}}})

(***************************************************************************)
(* single_match, the fill of a crossing bid and ask (volume.rs 288-380)    *)
(***************************************************************************)
\* results.total_volume -= matched
AddVolumeNegated(total, matched) == total - matched

\* results.total_volume += matched
AddVolume(total, matched) == total + matched

\* the outcome writes of the three arms of match bid_q.cmp(&ask_q); a write
\* at an index past the end of the vector panics
EqualArm(m, bid, ask) ==
    LET p == Some((Price(ask) + Price(bid)) \div 2)
        write_ask == ~IsAmm(ask) /\ ~IsComposite(ask)
        write_bid == ~IsAmm(bid) /\ ~IsComposite(ask)
        m1 == [m EXCEPT !.results.price = p,
                        !.ask_outcomes = IF write_ask
                                         THEN SetOutcome(@, m.ask_idx, CompleteFill)
                                         ELSE @]
    IN  IF write_bid /\ ~InRange(m.bid_outcomes, m.bid_idx) THEN Ret(m1, "Panic")
        ELSE Ret(SaveCheckpoint(
                    [m1 EXCEPT !.bid_outcomes =
                        IF write_bid THEN SetOutcome(@, m.bid_idx, CompleteFill) ELSE @]),
                 "None")

GreaterArm(m, bid, ask, matched) ==
    LET bid_book == ~IsAmm(bid) /\ ~IsComposite(bid)
        m1 == [m EXCEPT
                 !.results.price = Some(Price(bid)),
                 !.ask_outcomes = IF ~IsAmm(ask) /\ ~IsComposite(ask)
                                  THEN SetOutcome(@, m.ask_idx, CompleteFill)
                                  ELSE @,
                 !.bid_outcomes = IF bid_book
                                  THEN SetOutcome(@, m.bid_idx,
                                           PartialFillState(@[m.bid_idx + 1], matched))
                                  ELSE @]
    IN  IF bid_book /\ ~IsPartial(bid) THEN Ret(m1, "None")
        ELSE Ret(SaveCheckpoint(m1), "None")

LessArm(m, bid, ask, matched) ==
    LET ask_book == ~IsAmm(ask) /\ ~IsComposite(ask)
        m1 == [m EXCEPT
                 !.results.price = Some(Price(ask)),
                 !.bid_outcomes = IF ~IsAmm(bid) /\ ~IsComposite(bid)
                                  THEN SetOutcome(@, m.bid_idx, CompleteFill)
                                  ELSE @,
                 !.ask_outcomes = IF ask_book
                                  THEN SetOutcome(@, m.ask_idx,
                                           PartialFillState(@[m.ask_idx + 1], matched))
                                  ELSE @]
    IN  IF ask_book /\ ~IsPartial(ask) THEN Ret(m1, "None")
        ELSE Ret(SaveCheckpoint(m1), "None")

\* results.total_volume and results.partial_volume (volume.rs 295-303)
CountVolume(m0, bid, ask, matched) ==
    [m0 EXCEPT
       !.results.total_volume = AddVolume(@, matched),
       !.results.partial_volume =
           <<@[1] + (IF IsPartial(bid) THEN matched ELSE 0),
             @[2] + (IF IsPartial(ask) THEN matched ELSE 0)>>]

\* the AMM move of single_match (volume.rs 306-319)
CrossFillAmm(m, bid, ask, matched, ammOk) ==
    IF IsSome(m.amm_price) /\ IsAmm(bid) /\ ~IsAmm(ask)
    THEN FillAmm(m, matched, "BuyingT0", ammOk)
    ELSE IF IsSome(m.amm_price) /\ ~IsAmm(bid) /\ IsAmm(ask)
    THEN FillAmm(m, matched, "SellingT0", ammOk)
    ELSE [ok |-> TRUE, m |-> m]

CrossFill(m0, bid, ask, bid_q, ask_q, ammOk) ==
    Only({IF ~fa.ok THEN Ret(m, "ErrorEncountered")
          ELSE IF bid_q = ask_q THEN EqualArm(fa.m, bid, ask)
          ELSE IF bid_q > ask_q THEN GreaterArm(fa.m, bid, ask, Min2(ask_q, bid_q))
          ELSE LessArm(fa.m, bid, ask, Min2(ask_q, bid_q)) :
            <<m, fa>> \in
              {<<c, CrossFillAmm(c, bid, ask, Min2(ask_q, bid_q), ammOk)>> :
                 c \in {CountVolume(m0, bid, ask, Min2(ask_q, bid_q))}}})

(***************************************************************************)
(* VolumeFillMatcher::single_match (volume.rs 139-380)                     *)
(***************************************************************************)
\* single_match once both orders are selected (volume.rs 157-380)
SingleMatchSelected(b, m2, bid, ask, ammOk) ==
    IF IsAmm(bid) /\ IsAmm(ask) THEN Ret(m2, "BothSidesAMM")
    ELSE IF Price(ask) > Price(bid) THEN Ret(m2, "NoLongerCross")
    ELSE
    LET ask_q == Quantity(ask, Price(bid))
        bid_q == Quantity(bid, Price(ask))
    IN  IF ask_q = 0 /\ IsDebt(ask) THEN DebtAskFill(b, m2, bid, ask, ammOk)
        ELSE IF ask_q = 0 \/ bid_q = 0 THEN Ret(m2, "ZeroQuantity")
        ELSE CrossFill(m2, bid, ask, bid_q, ask_q, ammOk)

SingleMatchOp(b, m0, ammOk) ==
    Only({IF nb.kind = "panic" THEN Ret(m0, "Panic")
          ELSE IF nb.kind = "none" THEN Ret([m0 EXCEPT !.bid_idx = nb.idx], "NoMoreBids")
          ELSE IF na.kind = "panic" THEN Ret([m0 EXCEPT !.bid_idx = nb.idx], "Panic")
          ELSE Only({IF na.kind = "none" THEN Ret(m2, "NoMoreAsks")
                     ELSE SingleMatchSelected(b, m2, nb.o, na.o, ammOk) :
                       m2 \in {[m0 EXCEPT !.bid_idx = nb.idx, !.ask_idx = na.idx]}}) :
            nb \in {NextOrder(TRUE, m0.bid_idx, m0.debt, m0.amm_price,
                              b.bids, m0.bid_outcomes)},
            na \in {NextOrder(FALSE, m0.ask_idx, m0.debt, m0.amm_price,
                              b.asks, m0.ask_outcomes)}})

(***************************************************************************)
(* VolumeFillMatcher::next_order_from_book and VolumeFillMatcher::fill     *)
(* (volume.rs 382-515, 622-651): the matching loop that ignores the debt   *)
(* and talks to the AMM through AMM orders.                                *)
(***************************************************************************)
NextOrderFromBook(is_bid, idx, side, fs, amm) ==
    LET cur == FirstUnfilled(idx, fs)
        has_book == cur < Len(side)
        less == IF is_bid THEN "Less" ELSE "Greater"
        bound == IF has_book THEN Some(side[cur + 1].price) ELSE None
    IN  IF IsSome(amm) /\ (~has_book \/ Cmp(side[cur + 1].price, amm[1]) = less)
        THEN [kind |-> "order", o |-> AmmContainer(amm[1], bound), idx |-> idx]
        ELSE IF has_book
        THEN [kind |-> "order", o |-> BookContainer(side, cur), idx |-> cur]
        ELSE [kind |-> "none", o |-> NoOrder, idx |-> cur]

\* the end reason fill gives when no ask can be selected (volume.rs 408)
FillNoAskReason == "NoMoreBids"

\* the AMM bookkeeping of fill (volume.rs 446-461)
FillMoveAmm(m, bid, ask, matched) ==
    IF ~IsAmm(bid) /\ ~IsAmm(ask) THEN m
    ELSE
    LET end_bound == IF IsAmm(bid) THEN Price(bid) - matched ELSE Price(ask) + matched
    IN  [m EXCEPT
           !.amm_price = Some(end_bound),
           !.results.amm_volume = @ + matched,
           !.results.amm_final_price = Some(end_bound),
           !.amm_outcome = AddAmmQuantity(@, IsAmm(bid), matched)]

\* the three arms of fill's match bid_q.cmp(&ask_q) (volume.rs 463-512)
FillArms(m, bid, ask, bid_q, ask_q, matched) ==
    IF bid_q = ask_q
    THEN SaveCheckpoint(
            [m EXCEPT
               !.results.price = Some((Price(ask) + Price(bid)) \div 2),
               !.ask_outcomes = IF ~IsAmm(ask)
                                THEN SetOutcome(@, m.ask_idx, CompleteFill) ELSE @,
               !.bid_outcomes = IF ~IsAmm(bid)
                                THEN SetOutcome(@, m.bid_idx, CompleteFill) ELSE @])
    ELSE IF bid_q > ask_q
    THEN LET m1 == [m EXCEPT
                      !.results.price = Some(Price(bid)),
                      !.ask_outcomes = IF ~IsAmm(ask)
                                       THEN SetOutcome(@, m.ask_idx, CompleteFill)
                                       ELSE @,
                      !.bid_outcomes = IF ~IsAmm(bid)
                                       THEN SetOutcome(@, m.bid_idx,
                                                PartialFillState(@[m.bid_idx + 1], matched))
                                       ELSE @]
         IN  IF ~IsAmm(bid) /\ IsPartial(bid) THEN SaveCheckpoint(m1) ELSE m1
    ELSE LET m1 == [m EXCEPT
                      !.results.price = Some(Price(ask)),
                      !.bid_outcomes = IF ~IsAmm(bid)
                                       THEN SetOutcome(@, m.bid_idx, CompleteFill)
                                       ELSE @,
                      !.ask_outcomes = IF ~IsAmm(ask)
                                       THEN SetOutcome(@, m.ask_idx,
                                                PartialFillState(@[m.ask_idx + 1], matched))
                                       ELSE @]
         IN  IF ~IsAmm(ask) /\ IsPartial(ask) THEN SaveCheckpoint(m1) ELSE m1

RECURSIVE FillOp(_, _)
\* one turn of fill's loop once both orders are selected (volume.rs 412-513)
FillSelected(b, m2, bid, ask) ==
    IF IsAmm(bid) /\ IsAmm(ask) THEN Ret(m2, "BothSidesAMM")
    ELSE IF Price(ask) > Price(bid) THEN Ret(m2, "NoLongerCross")
    ELSE
    LET ask_q == Quantity(ask, Price(bid))
        bid_q == Quantity(bid, Price(ask))
        matched == Min2(ask_q, bid_q)
    IN  IF ask_q = 0 \/ bid_q = 0 THEN Ret(m2, "ZeroQuantity")
        ELSE Only({FillOp(b, m) :
                     m \in {FillArms(FillMoveAmm(CountVolume(m2, bid, ask, matched),
                                                 bid, ask, matched),
                                     bid, ask, bid_q, ask_q, matched)}})

FillOp(b, m0) ==
    Only({IF nb.kind = "none" THEN Ret([m0 EXCEPT !.bid_idx = nb.idx], "NoMoreBids")
          ELSE Only({IF na.kind = "none" THEN Ret(m2, FillNoAskReason)
                     ELSE FillSelected(b, m2, nb.o, na.o) :
                       m2 \in {[m0 EXCEPT !.bid_idx = nb.idx, !.ask_idx = na.idx]}}) :
            nb \in {NextOrderFromBook(TRUE, m0.bid_idx, b.bids, m0.bid_outcomes,
                                      m0.amm_price)},
            na \in {NextOrderFromBook(FALSE, m0.ask_idx, b.asks, m0.ask_outcomes,
                                      m0.amm_price)}})

(***************************************************************************)
(* VolumeFillMatcher::solution (volume.rs 653-678): the outcome of every   *)
(* bid, then of every ask, each under its order's id, and the uniform      *)
(* clearing price, zero when none was set.  An order's id is its side and  *)
(* its place in the book.                                                  *)
(***************************************************************************)
\* the outcomes of a side listed from the last order to the first
LimitOutcomesReversed(side_name, fs) ==
    [i \in 1..Len(fs) |-> [id |-> <<side_name, Len(fs) - i>>, outcome |-> fs[i]]]

LimitOutcomes(side_name, fs) ==
    [i \in 1..Len(fs) |-> [id |-> <<side_name, i - 1>>, outcome |-> fs[i]]]

\* solution with unwrap_or(1) in place of unwrap_or_default()
SolutionUnitPrice(m) ==
    [ucp |-> IF IsSome(m.results.price) THEN m.results.price[1] ELSE 1,
     amm_quantity |-> m.amm_outcome,
     limit |-> LimitOutcomes("bid", m.bid_outcomes) \o LimitOutcomes("ask", m.ask_outcomes)]

Solution(m) ==
    [ucp |-> IF IsSome(m.results.price) THEN m.results.price[1] ELSE 0,
     amm_quantity |-> m.amm_outcome,
     limit |-> LimitOutcomes("bid", m.bid_outcomes) \o LimitOutcomes("ask", m.ask_outcomes)]

(***************************************************************************)
(* The matcher as a state machine                                          *)
(***************************************************************************)
Debts == {[kind |-> "ExactIn", price |-> p] : p \in 1..MaxPrice}

MatcherInit ==
    /\ book \in Books
    /\ matcher = NewMatcher(book)
    /\ reason = "None"
    /\ last = "new"

\* one call of single_match; run_match repeats it until it returns an end
\* reason.  After a panic or an error the caller is left with the checkpoint.
SingleMatch ==
    /\ reason \notin {"Panic", "ErrorEncountered"}
    /\ \E ammOk \in BOOLEAN :
         \E r \in {SingleMatchOp(book, matcher, ammOk)} :
             /\ matcher' = r.m
             /\ reason' = r.r
             /\ last' = IF r.m # matcher THEN "changed" ELSE "unchanged"
    /\ UNCHANGED <<book, bidVars, commitVars, poolVars, simVars,
                 adapterVars>>

\* one call of fill, which loops until it has an end reason
Fill ==
    /\ reason \notin {"Panic", "ErrorEncountered"}
    /\ \E r \in {FillOp(book, matcher)} :
           /\ matcher' = r.m
           /\ reason' = r.r
           /\ last' = IF r.m # matcher THEN "changed" ELSE "unchanged"
    /\ UNCHANGED <<book, bidVars, commitVars, poolVars, simVars,
                 adapterVars>>

\* the tests' way to a matcher that carries debt: matcher.debt = debt right
\* after new() (volume.rs 961-962, 1020-1021)
SetDebt ==
    /\ last = "new"
    /\ \E d \in Debts : matcher' = [matcher EXCEPT !.debt = Some(d)]
    /\ last' = "changed"
    /\ UNCHANGED <<book, reason, bidVars, commitVars, poolVars, simVars,
                 adapterVars>>

\* one call of restore_checkpoint; last records what it returned
RestoreCheckpoint ==
    /\ reason \notin {"Panic", "ErrorEncountered"}
    /\ \E r \in {RestoreCheckpointOp(matcher)} :
           /\ matcher' = r.m
           /\ last' = IF r.ret THEN "restored" ELSE "not restored"
    /\ UNCHANGED <<book, reason, bidVars, commitVars, poolVars, simVars,
                 adapterVars>>

MatcherNext == SingleMatch \/ Fill \/ SetDebt

\* single_match with restore_checkpoint between the calls
RestoreNext == SingleMatch \/ SetDebt \/ RestoreCheckpoint

\* single_match and run_match alone
RunMatchNext == SingleMatch \/ SetDebt

(***************************************************************************)
(* BidAggregationState (consensus/src/rounds/bid_aggregation.rs)           *)
(***************************************************************************)
PreProposalIds == 1..MaxMsgs
AggregationIds == 1..MaxMsgs
ProposalIds == 1..MaxMsgs

\* BidAggregationState::new: empty sets, no proposal, the sleep armed, and
\* waker.wake_by_ref() so that the task is polled and the sleep registered
BidAggregationNew ==
    [state |-> [received_pre_proposals |-> {}, pre_proposals_aggregation |-> {},
                proposal |-> None],
     timeout |-> "pending",
     woken |-> TRUE]

BidInit ==
    /\ round = [name |-> "BidAggregation"]
    /\ ba = BidAggregationNew.state
    /\ ba_timeout = BidAggregationNew.timeout
    /\ ba_registered = FALSE
    /\ woken = BidAggregationNew.woken
    /\ block_height \in 1..MaxHeight
    /\ accepted = <<>>
    /\ inserted = [pre_proposals |-> {}, aggregations |-> {}]
    /\ rejected = FALSE

\* Consensus::handle_pre_proposal and Consensus::handle_pre_proposal_aggregation:
\* a message that passes the handle's checks is inserted into the set
HandleInsert(set, msg, valid) == IF valid THEN set \cup {msg} ELSE set

\* on_consensus_message, StromConsensusEvent::PreProposal
OnPreProposal ==
    /\ round.name = "BidAggregation"
    /\ \E pp \in PreProposalIds, valid \in BOOLEAN :
         /\ ba' = [ba EXCEPT !.received_pre_proposals = HandleInsert(@, pp, valid)]
         /\ inserted' = [inserted EXCEPT
                            !.pre_proposals = IF valid THEN @ \cup {pp} ELSE @]
    /\ UNCHANGED <<round, ba_timeout, ba_registered, woken, block_height, accepted, rejected,
                 matcherVars, commitVars, poolVars, simVars,
                 adapterVars>>

\* on_consensus_message, StromConsensusEvent::PreProposalAgg
OnPreProposalAgg ==
    /\ round.name = "BidAggregation"
    /\ \E agg \in AggregationIds, valid \in BOOLEAN :
         /\ ba' = [ba EXCEPT !.pre_proposals_aggregation = HandleInsert(@, agg, valid)]
         /\ inserted' = [inserted EXCEPT
                            !.aggregations = IF valid THEN @ \cup {agg} ELSE @]
    /\ UNCHANGED <<round, ba_timeout, ba_registered, woken, block_height, accepted, rejected,
                 matcherVars, commitVars, poolVars, simVars,
                 adapterVars>>

\* the Proposal arm waking the task whatever verify_proposal answered
StoreProposalAlwaysWakes(state, verified) ==
    IF IsSome(verified)
    THEN [state |-> [state EXCEPT !.proposal = verified], wake |-> TRUE]
    ELSE [state |-> state, wake |-> TRUE]

\* the Proposal arm of on_consensus_message: what it stores and whether it wakes,
\* given what verify_proposal answered (None when it rejects)
StoreProposal(state, verified) ==
    IF IsSome(verified)
    THEN [state |-> [state EXCEPT !.proposal = verified], wake |-> TRUE]
    ELSE [state |-> state, wake |-> FALSE]

\* on_consensus_message, StromConsensusEvent::Proposal
OnProposal ==
    /\ round.name = "BidAggregation"
    /\ Len(accepted) < MaxAccepted
    /\ \E p \in ProposalIds, ok \in BOOLEAN :
         LET verified == IF ok THEN Some(p) ELSE None
             r == StoreProposal(ba, verified)
         IN  /\ ba' = r.state
             /\ woken' = (woken \/ r.wake)
             /\ accepted' = IF ok THEN Append(accepted, p) ELSE accepted
             /\ rejected' = (rejected \/ ~ok)
    /\ UNCHANGED <<round, ba_timeout, ba_registered, block_height, inserted,
                 matcherVars, commitVars, poolVars, simVars,
                 adapterVars>>

\* poll_transition handing PreProposalState::new only the PreProposals
PollTransitionDropsAggregations(state, timeout, height) ==
    IF IsSome(state.proposal)
    THEN [name |-> "Finalization", proposal |-> state.proposal[1]]
    ELSE IF timeout = "elapsed"
    THEN [name |-> "PreProposal", height |-> height,
          pre_proposals |-> state.received_pre_proposals,
          aggregations |-> {}]
    ELSE [name |-> "Pending"]

\* poll_transition moving to PreProposal without waiting for the timeout
PollTransitionEager(state, timeout, height) ==
    IF IsSome(state.proposal)
    THEN [name |-> "Finalization", proposal |-> state.proposal[1]]
    ELSE [name |-> "PreProposal", height |-> height,
          pre_proposals |-> state.received_pre_proposals,
          aggregations |-> state.pre_proposals_aggregation]

\* poll_transition: the state to move to ("Pending" when there is none)
PollTransitionOp(state, timeout, height) ==
    IF IsSome(state.proposal)
    THEN [name |-> "Finalization", proposal |-> state.proposal[1]]
    ELSE IF timeout = "elapsed"
    THEN [name |-> "PreProposal", height |-> height,
          pre_proposals |-> state.received_pre_proposals,
          aggregations |-> state.pre_proposals_aggregation]
    ELSE [name |-> "Pending"]

\* one poll of the consensus task while the round is in BidAggregation
PollEffect ==
    LET next == PollTransitionOp(ba, ba_timeout, block_height)
    IN  /\ round.name = "BidAggregation"
        /\ IF next.name = "Pending"
           THEN /\ ba_registered' = TRUE
                /\ UNCHANGED <<round, ba>>
           ELSE /\ round' = next
                /\ ba' = IF next.name = "Finalization"
                         THEN [ba EXCEPT !.proposal = None]
                         ELSE [ba EXCEPT !.received_pre_proposals = {},
                                         !.pre_proposals_aggregation = {}]
                /\ UNCHANGED ba_registered
        /\ woken' = FALSE
        /\ UNCHANGED <<ba_timeout, block_height, accepted, rejected,
                 inserted,
                 matcherVars, commitVars, poolVars, simVars,
                 adapterVars>>

\* the executor polls a task that was woken
PollTransition == woken /\ PollEffect

\* the consensus task is also polled when some other source wakes it
SpuriousPoll == ~woken /\ PollEffect

\* the tokio timer fires: the sleep is ready and wakes the task that polled it
TimeoutElapses ==
    /\ round.name = "BidAggregation"
    /\ ba_timeout = "pending"
    /\ ba_timeout' = "elapsed"
    /\ woken' = (woken \/ ba_registered)
    /\ UNCHANGED <<round, ba, ba_registered, block_height, accepted, rejected,
                 inserted,
                 matcherVars, commitVars, poolVars, simVars,
                 adapterVars>>

BidNext ==
    \/ OnPreProposal
    \/ OnPreProposalAgg
    \/ OnProposal
    \/ PollTransition
    \/ SpuriousPoll
    \/ TimeoutElapses

(***************************************************************************)
(* ProposeState (consensus/src/round/propose.rs): the state the leader is  *)
(* in when it holds the best solved bundle.                                *)
(***************************************************************************)
BundleData == 1..MaxMsgs

\* ProposeState::new: keeps the data and calls waker.wake()
ProposeStateNew(data) == [state |-> [name |-> "Propose", data |-> data], woken |-> TRUE]

\* ProposeState::should_transition: always Poll::Ready, with the Submit
\* action, the SUBMIT consensus state and the Proposal message
ShouldTransition(state) ==
    [ready |-> TRUE,
     action |-> "Submit",
     consensus_state |-> "SUBMIT",
     message |-> Some("Proposal")]

\* the leader's round starts in Propose
ProposeInit ==
    /\ \E d \in BundleData :
         /\ round = ProposeStateNew(d).state
         /\ woken = ProposeStateNew(d).woken
    /\ ba = BidAggregationNew.state
    /\ ba_timeout = BidAggregationNew.timeout
    /\ ba_registered = FALSE
    /\ block_height \in 1..MaxHeight
    /\ accepted = <<>>
    /\ inserted = [pre_proposals |-> {}, aggregations |-> {}]
    /\ rejected = FALSE

\* the executor polls the woken task while the round is in Propose
ProposePoll ==
    /\ round.name = "Propose"
    /\ woken
    /\ LET r == ShouldTransition(round)
       IN  /\ r.ready
           /\ round' = [name |-> r.action, consensus_state |-> r.consensus_state,
                        message |-> r.message]
    /\ woken' = FALSE
    /\ UNCHANGED <<ba, ba_timeout, ba_registered, block_height, accepted, rejected,
                 inserted,
                 matcherVars, commitVars, poolVars, simVars,
                 adapterVars>>

RoundNext == BidNext \/ ProposePoll

(***************************************************************************)
(* Commit (types/src/consensus/commit.rs) over BLSSignature: a validator   *)
(* bitmap and an aggregate signature.  The aggregate is modelled by the    *)
(* bag of (secret key, message) pairs that were aggregated into it.        *)
(* Validator v holds secret key v + 1; secret key 0 is the zero key, with  *)
(* which signing fails.  The public-key library lists the validators'      *)
(* public keys in validator order.                                         *)
(***************************************************************************)
Validators == 0..(NumValidators - 1)
SecretKeys == 0..NumValidators
KeyOf(v) == v + 1

\* keccak256 is collision free: the digest stands for the bytes it was taken of
Keccak256(bytes) == [keccak256 |-> bytes]

Hashes == {Keccak256(<<n>>) : n \in 1..MaxHash}

\* n >> (8 * k)
RECURSIVE Shr8(_, _)
Shr8(n, k) == IF k = 0 THEN n ELSE Shr8(n \div 256, k - 1)

\* u64::to_be_bytes: eight bytes, the most significant first
ToBeBytes(n) == [i \in 1..8 |-> Shr8(n, 8 - i) % 256]

\* the hasher of generate_commit_all (commit.rs 31-35): keccak256 of
\* block_height.to_be_bytes(), preproposal_hash and solution_hash, in this order
GenerateMessage(height, pp, sol) == Keccak256(ToBeBytes(height) \o <<pp, sol>>)

\* the same hasher with the two digests in the other order
HashMessageSwapped(height, pp, sol) == Keccak256(ToBeBytes(height) \o <<sol, pp>>)

\* Commit::hash_message: the message add_signature signs and is_valid checks
HashMessage(height, pp, sol) == Keccak256(ToBeBytes(height) \o <<pp, sol>>)

BagAdd(bag, x) ==
    IF x \in DOMAIN bag THEN [bag EXCEPT ![x] = @ + 1]
    ELSE [y \in DOMAIN bag \cup {x} |-> IF y = x THEN 1 ELSE bag[y]]

\* BLSSignature::sign
BlsSign(validator_id, sk, msg) ==
    [validator_map |-> {validator_id}, aggregate |-> BagAdd(<<>>, <<sk, msg>>)]

\* BLSSignature::sign_into: fails on the zero key; else sets the bit and
\* aggregates the new signature
BlsSignInto(sig, validator_id, sk, msg) ==
    IF sk = 0 THEN [ok |-> FALSE, sig |-> sig]
    ELSE [ok |-> TRUE,
          sig |-> [validator_map |-> sig.validator_map \cup {validator_id},
                   aggregate |-> BagAdd(sig.aggregate, <<sk, msg>>)]]

\* BLSSignature::validate: the aggregate verifies against the sum of the
\* library's keys at the set bits, all over msg
BlsValidate(sig, library, msg) ==
    /\ \A v \in sig.validator_map : v + 1 <= Len(library)
    /\ sig.aggregate =
         [x \in {<<library[v + 1], msg>> : v \in sig.validator_map} |-> 1]

\* the validator index generate_commit_all signs under (commit.rs 38)
GenerateValidatorIdx(validator) == 0

\* Commit::generate_commit_all, called by `validator` with its secret key sk
GenerateCommitAll(height, pp, sol, validator, sk) ==
    [block_height |-> height, preproposal_hash |-> pp, solution_hash |-> sol,
     signature |-> BlsSign(GenerateValidatorIdx(validator), sk,
                           GenerateMessage(height, pp, sol))]

\* bincode of a Vec: the length, then the items in the order the Vec holds them
Bincode(v) == <<Len(v)>> \o v

\* the lists a Proposal can carry: no entry twice
Lists(S, n) == {l \in UNION {[1..k -> S] : k \in 0..n} :
                  \A i, j \in 1..Len(l) : i # j => l[i] # l[j]}

Proposals ==
    [block_height : 1..MaxHeight, source : Validators,
     preproposals : Lists(1..MaxMsgs, MaxMsgs),
     solutions : Lists(1..MaxSolutions, MaxSolutions)]

\* Commit::from_proposal: the two lists are serialized as the Proposal holds them
FromProposal(p, sk) ==
    GenerateCommitAll(p.block_height, Keccak256(Bincode(p.preproposals)),
                      Keccak256(Bincode(p.solutions)), p.source, sk)

\* Commit::validator_map, Commit::num_signed, Commit::signed_by
ValidatorMap(c) == c.signature.validator_map
NumSigned(c) == Cardinality(c.signature.validator_map)
SignedBy(c, v) == v \in c.signature.validator_map

\* add_signature that signs afresh instead of aggregating into the signature
AddSignatureReplaces(c, validator_id, sk) ==
    IF sk = 0 THEN [ok |-> FALSE, c |-> c]
    ELSE [ok |-> TRUE,
          c |-> [c EXCEPT !.signature =
                   BlsSign(validator_id, sk,
                           HashMessage(c.block_height, c.preproposal_hash,
                                       c.solution_hash))]]

\* Commit::add_signature
AddSignatureOp(c, validator_id, sk) ==
    LET r == BlsSignInto(c.signature, validator_id, sk,
                         HashMessage(c.block_height, c.preproposal_hash, c.solution_hash))
    IN  [ok |-> r.ok, c |-> [c EXCEPT !.signature = r.sig]]

\* Commit::is_valid
IsValid(c, library) ==
    BlsValidate(c.signature, library,
                HashMessage(c.block_height, c.preproposal_hash, c.solution_hash))

\* Commit::is_for: the block heights are compared, nothing else
IsFor(c, p) == c.block_height = p.block_height

\* the ordered public-key library: validator v's key at index v
Library == [i \in 1..NumValidators |-> KeyOf(i - 1)]

CommitInit ==
    /\ commit = None
    /\ signer = None
    /\ added = <<>>
    /\ proposal = None

\* a validator generates the commit with its own secret key
Generate ==
    /\ IsNone(commit)
    /\ \E h \in 1..MaxHeight, pp \in Hashes, sol \in Hashes, v \in Validators :
         /\ commit' = Some(GenerateCommitAll(h, pp, sol, v, KeyOf(v)))
         /\ signer' = Some(v)
    /\ UNCHANGED <<added, proposal, matcherVars, bidVars, poolVars, simVars,
                 adapterVars>>

\* a validator builds the commit of a Proposal with its own secret key
GenerateFromProposal ==
    /\ IsNone(commit)
    /\ \E p \in Proposals :
         /\ commit' = Some(FromProposal(p, KeyOf(p.source)))
         /\ signer' = Some(p.source)
         /\ proposal' = Some(p)
    /\ UNCHANGED <<added, matcherVars, bidVars, poolVars, simVars,
                 adapterVars>>

\* add_signature(validator_id, sk) with any key, the validator's own or not
AddSignature ==
    /\ IsSome(commit)
    /\ Len(added) < MaxAdds
    /\ \E v \in Validators, sk \in SecretKeys :
         LET r == AddSignatureOp(commit[1], v, sk)
         IN  /\ commit' = Some(r.c)
             /\ added' = IF r.ok THEN Append(added, [validator |-> v, sk |-> sk])
                         ELSE added
    /\ UNCHANGED <<signer, proposal, matcherVars, bidVars, poolVars, simVars,
                 adapterVars>>

CommitNext == Generate \/ GenerateFromProposal \/ AddSignature

(***************************************************************************)
(* PoolManager and PoolHandle (angstrom-net/src/pool_manager.rs; the poll  *)
(* of guard-net/src/pool_manager.rs drains its streams in the same order). *)
(* The poll is a sequence of poll_next calls, one per step; the senders    *)
(* of the five streams run in other tasks and may send between any two of  *)
(* them.  The order indexer, the LruCache and the network handle are not   *)
(* part of the crate: the indexer keeps the orders handed to it until it   *)
(* validated them, the LruCache keeps its entries least recently used      *)
(* first, the network handle sends a broadcast to every connected peer.    *)
(***************************************************************************)
PeerIds == 1..NumPeers
OrderHashes == 1..MaxOrderHash
Streams == {"eth", "net", "cmd", "ord", "idx"}
\* the EthEvents sent; ReorgedOrders and NewBlock are to the model what
\* FinalizedBlock is
EthKinds == {"NewBlockTransitions", "FinalizedBlock"}
NetKinds == {"SessionEstablished", "SessionClosed", "PeerRemoved", "PeerAdded"}
ValidationResults == {"Valid", "Invalid", "TransitionedToBlock"}

\* the model's stand-in for PEER_ORDER_CACHE_LIMIT = 1024 * 10
PEER_ORDER_CACHE_LIMIT == CacheLimit

\* the orders of an IncomingOrders event, by hash; the lists sent are ascending
OrderLists ==
    {l \in UNION {[1..k -> OrderHashes] : k \in 1..MaxOrderList} :
        \A i \in 1..(Len(l) - 1) : l[i] < l[i + 1]}

Elems(seq) == {seq[i] : i \in 1..Len(seq)}

\* LruCache::new
LruNew(cap) == [cap |-> cap, items |-> <<>>]

\* LruCache::insert: the entry becomes the most recently used one; a new
\* entry in a full cache takes the place of the least recently used one
LruInsert(c, h) ==
    IF h \in Elems(c.items)
    THEN [c EXCEPT !.items = Append(SelectSeq(@, LAMBDA x : x # h), h)]
    ELSE IF Len(c.items) >= c.cap
         THEN [c EXCEPT !.items = Append(Tail(@), h)]
         ELSE [c EXCEPT !.items = Append(@, h)]

\* a StromPeer whose cache takes one entry more than the limit
StromPeerNewOversized ==
    [orders |-> LruNew(PEER_ORDER_CACHE_LIMIT + 1)]

\* the StromPeer on_network_event inserts (pool_manager.rs 370-375, 385-390)
StromPeerNew ==
    [orders |-> LruNew(PEER_ORDER_CACHE_LIMIT)]

\* on_network_event that handles the two session events alone
OnNetworkEventSessionsOnly(ps, ev) ==
    IF ev.kind = "SessionEstablished"
    THEN [ps EXCEPT ![ev.peer] = Some(StromPeerNew)]
    ELSE IF ev.kind = "SessionClosed"
    THEN [ps EXCEPT ![ev.peer] = None]
    ELSE ps

\* PoolManager::on_network_event
OnNetworkEvent(ps, ev) ==
    IF ev.kind \in {"SessionEstablished", "PeerAdded"}
    THEN [ps EXCEPT ![ev.peer] = Some(StromPeerNew)]
    ELSE [ps EXCEPT ![ev.peer] = None]

\* OrderIndexer::start_new_block_processing
StartNewBlockProcessing(ix, block_number) == [ix EXCEPT !.block = block_number]

\* PoolManager::on_eth_event: reorg and finalized_block change nothing the
\* model keeps of the indexer
OnEthEvent(ix, ev) ==
    IF ev.kind = "NewBlockTransitions"
    THEN StartNewBlockProcessing(ix, ev.block)
    ELSE ix

\* OrderIndexer::new_rpc_order: the indexer keeps the order and the sender
\* of the response
NewRpcOrder(ix, order, req) ==
    [ix EXCEPT !.pending = Append(@, [order |-> order, peer |-> 0, req |-> req,
                                      block |-> ix.block])]

\* OrderIndexer::new_network_order
NewNetworkOrder(ix, peer_id, order) ==
    [ix EXCEPT !.pending = Append(@, [order |-> order, peer |-> peer_id, req |-> 0,
                                      block |-> ix.block])]

\* the validator's verdict on an order: the order of the last hash is the
\* invalid one
OrderValid(order) == order # MaxOrderHash

\* what the validation of a pending order ends with: the block moved on
\* since the order was handed in, or the validator's verdict
ValidationResult(ix, e) ==
    IF e.block # ix.block THEN "TransitionedToBlock"
    ELSE IF OrderValid(e.order) THEN "Valid"
    ELSE "Invalid"

\* PoolManager::on_command
OnCommand(ix, cmd) == NewRpcOrder(ix, cmd.order, cmd.req)

\* PoolManager::on_network_order_event, what it does to the peers: every
\* order's hash is recorded in the sending peer's cache, if the peer is tracked
RECURSIVE RecordOrders(_, _)
RecordOrders(ps, ev) ==
    IF ev.orders = <<>> THEN ps
    ELSE RecordOrders(
           IF IsSome(ps[ev.peer])
           THEN [ps EXCEPT ![ev.peer] =
                   Some([orders |-> LruInsert(@[1].orders, Head(ev.orders))])]
           ELSE ps,
           [ev EXCEPT !.orders = Tail(@)])

\* on_network_order_event handing the orders of an event over from the last
\* to the first
HandOrdersLastFirst(ix, ev) ==
    [ix EXCEPT !.pending =
        @ \o [i \in 1..Len(ev.orders) |->
                 [order |-> ev.orders[Len(ev.orders) + 1 - i], peer |-> ev.peer,
                  req |-> 0, block |-> ix.block]]]

\* PoolManager::on_network_order_event, what it does to the indexer: every
\* order is handed to new_network_order
RECURSIVE HandOrders(_, _)
HandOrders(ix, ev) ==
    IF ev.orders = <<>> THEN ix
    ELSE HandOrders(NewNetworkOrder(ix, ev.peer, Head(ev.orders)),
                    [ev EXCEPT !.orders = Tail(@)])

\* the peers of the BadOrderMessages events of a batch, as listed
RECURSIVE BadPeers(_)
BadPeers(batch) ==
    IF batch = <<>> THEN <<>>
    ELSE (IF Head(batch).kind = "BadOrderMessages" THEN Head(batch).peers ELSE <<>>)
           \o BadPeers(Tail(batch))

\* the orders of the Propagation events of a batch
RECURSIVE BroadcastOrders(_)
BroadcastOrders(batch) ==
    IF batch = <<>> THEN <<>>
    ELSE (IF Head(batch).kind = "Propagation" THEN <<Head(batch).order>> ELSE <<>>)
           \o BroadcastOrders(Tail(batch))

\* the peers the network handle holds a session with, as far as the manager
\* can tell: tracked, and no close or removal on its way
Connected(ps, net) ==
    {p \in PeerIds :
        /\ IsSome(ps[p])
        /\ \A i \in 1..Len(net) :
              net[i].peer = p => net[i].kind \in {"SessionEstablished", "PeerAdded"}}

\* on_pool_events that penalizes only the first peer of each batch
OnPoolEventsFirstPeer(batch, ps, net) ==
    [batch |-> batch,
     reputation |-> IF BadPeers(batch) = <<>> THEN <<>>
                    ELSE <<[peer |-> Head(BadPeers(batch)), kind |-> "InvalidOrder"]>>,
     updates |-> BroadcastOrders(batch),
     broadcast |-> Some(BroadcastOrders(batch)),
     recipients |-> Connected(ps, net)]

\* PoolManager::on_pool_events: the reputation changes, the subscriber
\* updates and the broadcast the call makes
OnPoolEvents(batch, ps, net) ==
    [batch |-> batch,
     reputation |-> [i \in 1..Len(BadPeers(batch)) |->
                       [peer |-> BadPeers(batch)[i], kind |-> "InvalidOrder"]],
     updates |-> BroadcastOrders(batch),
     broadcast |-> Some(BroadcastOrders(batch)),
     recipients |-> Connected(ps, net)]

\* the match of new_order that takes TransitionedToBlock for a success
NewOrderResultLenient(res) ==
    CASE res = "Valid" -> TRUE
      [] res = "Invalid" -> FALSE
      [] res = "TransitionedToBlock" -> TRUE
      [] OTHER -> FALSE

\* PoolHandle::new_order, the match on what the receiver resolved to
\* (pool_manager.rs 103-110); "dropped" is Err(_)
NewOrderResult(res) ==
    CASE res = "Valid" -> TRUE
      [] res = "Invalid" -> FALSE
      [] res = "TransitionedToBlock" -> FALSE
      [] OTHER -> FALSE

\* poll with the commands drained before the network events
NextStreamCommandsFirst(ch) ==
    CASE ch = "eth" -> "cmd"
      [] ch = "cmd" -> "net"
      [] ch = "net" -> "ord"
      [] ch = "ord" -> "idx"
      [] OTHER -> "idle"

\* PoolManager::poll: the loop that follows the loop of ch
NextStream(ch) ==
    CASE ch = "eth" -> "net"
      [] ch = "net" -> "cmd"
      [] ch = "cmd" -> "ord"
      [] ch = "ord" -> "idx"
      [] OTHER -> "idle"

\* the stream the poll starts with
FirstStream == CHOOSE ch \in Streams : \A c \in Streams : NextStream(c) # ch

\* Stream::poll_next: an item, the end of a closed stream, or Pending
PollNext(ch) ==
    IF chan[ch] # <<>> THEN "Some"
    ELSE IF ch \in closed THEN "None"
    ELSE "Pending"

\* what the poll returns (pool_manager.rs 458)
PollReturn == "Pending"

\* the while-let loop of ch: its body runs on Some, else the next loop starts
\* or the poll returns
LoopStep(ch) ==
    /\ pm_pc = ch
    /\ saw_none' = (saw_none \/ PollNext(ch) = "None")
    /\ pm_pc' = IF PollNext(ch) = "Some" THEN ch ELSE NextStream(ch)
    /\ poll_ret' = IF PollNext(ch) # "Some" /\ NextStream(ch) = "idle"
                   THEN PollReturn ELSE poll_ret
    /\ chan' = IF PollNext(ch) = "Some" THEN [chan EXCEPT ![ch] = Tail(@)] ELSE chan

PoolInit ==
    /\ pm_pc = "idle"
    /\ chan = [ch \in Streams |-> <<>>]
    /\ closed = {}
    /\ peers = [p \in PeerIds |-> None]
    /\ indexer = [block |-> 0, pending |-> <<>>]
    /\ net_out = [batch |-> <<>>, reputation |-> <<>>, updates |-> <<>>,
                  broadcast |-> None, recipients |-> {}]
    /\ requests = <<>>
    /\ saw_none = FALSE
    /\ poll_ret = "NotPolled"
    /\ env = [arrived |-> 0, block |-> 0]

Send(ch, item) ==
    /\ pm_pc # "dropped"
    /\ ch \notin closed
    /\ env.arrived < MaxArrivals
    /\ chan' = [chan EXCEPT ![ch] = Append(@, item)]

\* the eth data source sends an event; block transitions come in block order
EthArrives ==
    /\ \E kind \in EthKinds :
         /\ Send("eth", [kind |-> kind,
                         block |-> IF kind = "NewBlockTransitions"
                                   THEN env.block + 1 ELSE env.block])
         /\ env' = [arrived |-> env.arrived + 1,
                    block |-> IF kind = "NewBlockTransitions"
                              THEN env.block + 1 ELSE env.block]
    /\ UNCHANGED <<pm_pc, closed, peers, indexer, net_out, requests, saw_none,
                   poll_ret, matcherVars, bidVars, commitVars, simVars,
                 adapterVars>>

\* the network sends a session or peer event
NetArrives ==
    /\ \E kind \in NetKinds, p \in PeerIds :
         Send("net", [kind |-> kind, peer |-> p])
    /\ env' = [env EXCEPT !.arrived = @ + 1]
    /\ UNCHANGED <<pm_pc, closed, peers, indexer, net_out, requests, saw_none,
                   poll_ret, matcherVars, bidVars, commitVars, simVars,
                 adapterVars>>

\* a peer's orders come in
OrdArrives ==
    /\ \E p \in PeerIds, orders \in OrderLists :
         Send("ord", [peer |-> p, orders |-> orders])
    /\ env' = [env EXCEPT !.arrived = @ + 1]
    /\ UNCHANGED <<pm_pc, closed, peers, indexer, net_out, requests, saw_none,
                   poll_ret, matcherVars, bidVars, commitVars, simVars,
                 adapterVars>>

\* PoolHandle::new_order: the oneshot is made and the command sent; the
\* result of the send is ignored, a command that cannot be sent is dropped
\* and its sender with it
NewOrder ==
    /\ Len(requests) < MaxRequests
    /\ env.arrived < MaxArrivals
    /\ "cmd" \notin closed
    /\ env' = [env EXCEPT !.arrived = @ + 1]
    /\ \E order \in OrderHashes :
         IF pm_pc = "dropped"
         THEN /\ requests' = Append(requests, [order |-> order, tx |-> "dropped",
                                               future |-> "pending", resolved |-> 0])
              /\ chan' = chan
         ELSE /\ requests' = Append(requests, [order |-> order, tx |-> "command",
                                               future |-> "pending", resolved |-> 0])
              /\ chan' = [chan EXCEPT !["cmd"] =
                            Append(@, [req |-> Len(requests) + 1, order |-> order])]
    /\ UNCHANGED <<pm_pc, closed, peers, indexer, net_out, saw_none, poll_ret,
                   matcherVars, bidVars, commitVars, simVars,
                 adapterVars>>

\* the future new_order returned is polled once its receiver holds a value
\* or lost its sender
ResolveFuture ==
    /\ \E i \in 1..Len(requests) :
         /\ requests[i].tx \in ValidationResults \cup {"dropped"}
         /\ requests[i].future = "pending"
         /\ requests' = [requests EXCEPT
                           ![i].future = IF NewOrderResult(requests[i].tx)
                                         THEN "true" ELSE "false",
                           ![i].resolved = @ + 1]
    /\ UNCHANGED <<pm_pc, chan, closed, peers, indexer, net_out, saw_none, poll_ret,
                   env, matcherVars, bidVars, commitVars, simVars,
                 adapterVars>>

\* the sending side of a stream goes away
CloseStream ==
    /\ pm_pc # "dropped"
    /\ Cardinality(closed) < MaxClosed
    /\ \E ch \in Streams \ closed : closed' = closed \cup {ch}
    /\ UNCHANGED <<pm_pc, chan, peers, indexer, net_out, requests, saw_none,
                   poll_ret, env, matcherVars, bidVars, commitVars, simVars,
                 adapterVars>>

\* the manager task is dropped between two polls, and with it the commands
\* it had not taken and the indexer
DropManager ==
    /\ pm_pc = "idle"
    /\ pm_pc' = "dropped"
    /\ chan' = [chan EXCEPT !["cmd"] = <<>>]
    /\ indexer' = [indexer EXCEPT !.pending = <<>>]
    /\ requests' = [i \in 1..Len(requests) |->
                      IF requests[i].tx \in {"command", "indexer"}
                      THEN [requests[i] EXCEPT !.tx = "dropped"]
                      ELSE requests[i]]
    /\ UNCHANGED <<closed, peers, net_out, saw_none, poll_ret, env,
                   matcherVars, bidVars, commitVars, simVars,
                 adapterVars>>

\* the indexer finishes the validation of the order it holds longest.  An
\* RPC order's sender gets the result or is dropped unanswered; a valid order
\* is put up for propagation; an invalid peer order is reported with the
\* peers that sent it.  The event joins the batch the stream yields next.
IndexerValidates ==
    /\ indexer.pending # <<>>
    /\ "idx" \notin closed
    /\ \E e \in {Head(indexer.pending)}, answered \in BOOLEAN :
        \E res \in {ValidationResult(indexer, e)} :
         \E same \in {{i \in 1..Len(indexer.pending) :
                          /\ e.peer # 0 /\ res = "Invalid"
                          /\ indexer.pending[i].order = e.order
                          /\ indexer.pending[i].peer # 0}} :
           \E event \in {IF res = "Valid"
                         THEN [kind |-> "Propagation", order |-> e.order, peers |-> <<>>]
                         ELSE IF res = "Invalid" /\ e.peer # 0
                         THEN [kind |-> "BadOrderMessages", order |-> 0,
                               peers |-> [i \in 1..Cardinality(same) |->
                                  indexer.pending[
                                    CHOOSE j \in same :
                                      Cardinality({k \in same : k < j}) = i - 1].peer]]
                         ELSE [kind |-> "None", order |-> 0, peers |-> <<>>]} :
             /\ (e.req = 0 => answered)
             /\ indexer' = [indexer EXCEPT !.pending =
                              [i \in 1..Len(SelectSeq([j \in 1..Len(@) |-> j],
                                               LAMBDA j : j # 1 /\ j \notin same)) |->
                                 @[SelectSeq([j \in 1..Len(@) |-> j],
                                             LAMBDA j : j # 1 /\ j \notin same)[i]]]]
             /\ requests' = IF e.req = 0 THEN requests
                            ELSE [requests EXCEPT ![e.req].tx =
                                    IF answered THEN res ELSE "dropped"]
             /\ chan' = [chan EXCEPT !["idx"] =
                           IF @ = <<>> THEN <<<<event>>>>
                           ELSE <<Append(@[1], event)>>]
    /\ UNCHANGED <<pm_pc, closed, peers, net_out, saw_none, poll_ret, env,
                   matcherVars, bidVars, commitVars, simVars,
                 adapterVars>>

\* the executor polls the manager
PollStart ==
    /\ pm_pc = "idle"
    /\ pm_pc' = FirstStream
    /\ saw_none' = FALSE
    /\ poll_ret' = "Running"
    /\ UNCHANGED <<chan, closed, peers, indexer, net_out, requests, env,
                   matcherVars, bidVars, commitVars, simVars,
                 adapterVars>>

\* pool_manager.rs 433-435
PollEth ==
    /\ LoopStep("eth")
    /\ indexer' = IF PollNext("eth") = "Some"
                  THEN OnEthEvent(indexer, Head(chan["eth"])) ELSE indexer
    /\ UNCHANGED <<closed, peers, net_out, requests, env,
                   matcherVars, bidVars, commitVars, simVars,
                 adapterVars>>

\* pool_manager.rs 438-440
PollNet ==
    /\ LoopStep("net")
    /\ peers' = IF PollNext("net") = "Some"
                THEN OnNetworkEvent(peers, Head(chan["net"])) ELSE peers
    /\ UNCHANGED <<closed, indexer, net_out, requests, env,
                   matcherVars, bidVars, commitVars, simVars,
                 adapterVars>>

\* pool_manager.rs 443-446
PollCmd ==
    /\ LoopStep("cmd")
    /\ IF PollNext("cmd") = "Some"
       THEN /\ indexer' = OnCommand(indexer, Head(chan["cmd"]))
            /\ requests' = [requests EXCEPT ![Head(chan["cmd"]).req].tx = "indexer"]
       ELSE UNCHANGED <<indexer, requests>>
    /\ UNCHANGED <<closed, peers, net_out, env, matcherVars, bidVars, commitVars, simVars,
                 adapterVars>>

\* pool_manager.rs 449-451
PollOrd ==
    /\ LoopStep("ord")
    /\ IF PollNext("ord") = "Some"
       THEN /\ peers' = RecordOrders(peers, Head(chan["ord"]))
            /\ indexer' = HandOrders(indexer, Head(chan["ord"]))
       ELSE UNCHANGED <<peers, indexer>>
    /\ UNCHANGED <<closed, net_out, requests, env, matcherVars, bidVars, commitVars, simVars,
                 adapterVars>>

\* pool_manager.rs 454-456
PollIdx ==
    /\ LoopStep("idx")
    /\ net_out' = IF PollNext("idx") = "Some"
                  THEN OnPoolEvents(Head(chan["idx"]), peers, chan["net"])
                  ELSE net_out
    /\ UNCHANGED <<closed, peers, indexer, requests, env,
                   matcherVars, bidVars, commitVars, simVars,
                 adapterVars>>

\* the manager between the eth source, the network and the indexer
PoolNext ==
    \/ EthArrives
    \/ NetArrives
    \/ OrdArrives
    \/ NewOrder
    \/ IndexerValidates
    \/ PollStart
    \/ PollEth
    \/ PollNet
    \/ PollCmd
    \/ PollOrd
    \/ PollIdx

\* the manager with streams that end
PoolCloseNext ==
    \/ EthArrives
    \/ NetArrives
    \/ CloseStream
    \/ PollStart
    \/ PollEth
    \/ PollNet
    \/ PollCmd
    \/ PollOrd
    \/ PollIdx

\* the manager between the PoolHandle and the indexer
PoolHandleNext ==
    \/ NewOrder
    \/ ResolveFuture
    \/ DropManager
    \/ EthArrives
    \/ IndexerValidates
    \/ PollStart
    \/ PollEth
    \/ PollNet
    \/ PollCmd
    \/ PollOrd
    \/ PollIdx

(***************************************************************************)
(* BundleValidator::simulate_bundle (validation/src/bundle/mod.rs).  A     *)
(* call takes the conversion lookup from the price generator and spawns a  *)
(* task on the thread pool; the task builds the EVM for block number + 1,  *)
(* transacts and sends one result on the call's oneshot sender.  The task  *)
(* body has no await: it runs in one step.                                 *)
(***************************************************************************)
\* what evm.transact() hands back: an error of transact itself, or an
\* execution result that is a success, a revert or a halt, with its gas
EvmOutcomes ==
    {[kind |-> "TransactErr", gas |-> 0]}
        \cup {[kind |-> k, gas |-> g] : k \in {"Success", "Revert", "Halt"},
                                        g \in 0..MaxGas}

\* price_gen.generate_lookup_map(): the conversion tables a call may see
Lookups == 1..MaxLookup

\* ExecutionResult::is_success
IsSuccess(evm) == evm.kind = "Success"

\* BundleGasDetails::new
BundleGasDetailsNew(conversion_lookup, gas_used) ==
    [conversion_table |-> conversion_lookup, gas_used |-> gas_used]

SimOk(details) == [ok |-> TRUE, details |-> details, err |-> ""]
SimErr(msg) == [ok |-> FALSE, details |-> BundleGasDetailsNew(0, 0), err |-> msg]

\* the task body without the is_success test
SimulationResultUnchecked(conversion_lookup, evm) ==
    IF evm.kind = "TransactErr"
    THEN <<SimErr("transaction simulation failed - failed to transaction with revm")>>
    ELSE <<SimOk(BundleGasDetailsNew(conversion_lookup, evm.gas))>>

\* the task body from the transact on (mod.rs 90-111): what it sends on the
\* sender, in order; each arm sends once and returns
SimulationResult(conversion_lookup, evm) ==
    IF evm.kind = "TransactErr"
    THEN <<SimErr("transaction simulation failed - failed to transaction with revm")>>
    ELSE IF ~IsSuccess(evm)
    THEN <<SimErr("transaction simulation failed")>>
    ELSE <<SimOk(BundleGasDetailsNew(conversion_lookup, evm.gas))>>

SimInit == sims = <<>>

\* simulate_bundle: the lookup map is generated and the task spawned
SimulateBundle ==
    /\ Len(sims) < MaxSims
    /\ \E number \in 0..MaxHeight, lookup \in Lookups :
         sims' = Append(sims, [number |-> number, block |-> number + 1,
                               lookup |-> lookup, ran |-> FALSE, evm |-> None,
                               sent |-> <<>>])
    /\ UNCHANGED <<matcherVars, bidVars, commitVars, poolVars,
                 adapterVars>>

\* the thread pool runs a spawned task: the EVM transacts and the task sends
RunSimulation ==
    /\ \E i \in 1..Len(sims), evm \in EvmOutcomes :
         /\ ~sims[i].ran
         /\ sims' = [sims EXCEPT ![i] =
                       [@ EXCEPT !.ran = TRUE,
                                 !.evm = Some(evm),
                                 !.sent = @ \o SimulationResult(sims[i].lookup, evm)]]
    /\ UNCHANGED <<matcherVars, bidVars, commitVars, poolVars,
                 adapterVars>>

SimNext == SimulateBundle \/ RunSimulation

(***************************************************************************)
(* CanonicalStateAdapter (canonical_state_adapter.rs).  A chain of a       *)
(* notification is its first and last block number, the branch it is on    *)
(* and the height from which the branch departs from the common chain; a   *)
(* block's hash stands for its number and its branch.  The execution       *)
(* outcome gives the logs of a block by the parity of its number.          *)
(***************************************************************************)
Addresses == 1..MaxAddress

LogA == [address |-> 1, topics |-> <<1>>]
LogB == [address |-> 2, topics |-> <<>>]
LogLists == {<<>>, <<LogA>>, <<LogA, LogB>>}

\* search 30 blocks back
ReorgDepth == 30

Chains(firsts, lasts, forks, branch, outcomes) ==
    {c \in [first : firsts, last : lasts, fork : forks, branch : {branch},
            logs : outcomes] : c.first <= c.last}

\* Chain::tip: the block with the highest number
Tip(chain) == chain.last

BlockHash(chain, n) ==
    [number |-> n, branch |-> IF n < chain.fork THEN "common" ELSE chain.branch]

\* Chain::blocks_iter: the blocks in ascending order of their number
BlocksIter(chain) ==
    [i \in 1..(chain.last - chain.first + 1) |->
        [number |-> chain.first + i - 1,
         hash |-> BlockHash(chain, chain.first + i - 1)]]

\* ExecutionOutcome::logs(block_number): None for a block outside the chain
ExecutionLogs(chain, n) ==
    IF n \in chain.first..chain.last THEN Some(chain.logs[n % 2]) ELSE None

\* .map_or_else(Vec::new, |logs| logs.cloned().collect())
LogsOrEmpty(chain, n) ==
    IF IsSome(ExecutionLogs(chain, n)) THEN ExecutionLogs(chain, n)[1] ELSE <<>>

\* CanonicalStateAdapter::new
AdapterNew == [last_logs |-> <<>>, last_block_number |-> 0]

\* Clone for CanonicalStateAdapter: a new RwLock over a copy of the logs and a
\* new AtomicU64 holding the number loaded; nothing is shared with the source
CloneAdapter(a) ==
    [last_logs |-> [i \in 1..Len(a.last_logs) |-> a.last_logs[i]],
     last_block_number |-> a.last_block_number]

NewBlock(n) == [type |-> "NewBlock", number |-> n]
Reorg(n, range) == [type |-> "Reorg", number |-> n, range |-> range]

\* the Commit arm: the clone takes the tip's logs and number
OnCommit(this, new) ==
    [this |-> [last_logs |-> LogsOrEmpty(new, Tip(new)),
               last_block_number |-> Tip(new)],
     pc |-> "open",
     item |-> Some(NewBlock(Tip(new)))]

\* `tip - 30` on u64: the difference when tip >= 30; below, a build with
\* overflow checks panics and a build without them wraps to 2^64 + tip - 30,
\* which is kept as the deficit it wrapped by
WindowStart(tip, overflow_checks) ==
    IF tip >= ReorgDepth THEN [kind |-> "number", n |-> tip - ReorgDepth]
    ELSE IF overflow_checks THEN [kind |-> "panic", n |-> 0]
    ELSE [kind |-> "wrapped", n |-> ReorgDepth - tip]

\* b.block.number >= start: no block number of the model reaches a wrapped
\* start, which is at least 2^64 - 30
AtLeastStart(n, start) == IF start.kind = "wrapped" THEN FALSE ELSE n >= start.n

\* the range of the Reorg arm comparing the window's first block only
ReorgRangeFirstPair(old, new, start) ==
    LET olds == SelectSeq(BlocksIter(old), LAMBDA b : AtLeastStart(b.number, start))
        news == SelectSeq(BlocksIter(new), LAMBDA b : AtLeastStart(b.number, start))
        pairs == [i \in 1..Min2(1, Min2(Len(olds), Len(news))) |-> <<olds[i], news[i]>>]
        range == SelectSeq(pairs, LAMBDA pr : pr[1].hash # pr[2].hash)
    IN  IF Len(range) = 0
        THEN [start |-> Tip(new), end |-> Tip(new)]
        ELSE [start |-> range[1][2].number, end |-> range[Len(range)][2].number]

\* the range of the Reorg arm: the old and the new blocks of the window are
\* zipped in order, and the range runs from the first to the last new block
\* whose hash differs from its partner's
ReorgRange(old, new, start) ==
    LET olds == SelectSeq(BlocksIter(old), LAMBDA b : AtLeastStart(b.number, start))
        news == SelectSeq(BlocksIter(new), LAMBDA b : AtLeastStart(b.number, start))
        pairs == [i \in 1..Min2(Len(olds), Len(news)) |-> <<olds[i], news[i]>>]
        range == SelectSeq(pairs, LAMBDA pr : pr[1].hash # pr[2].hash)
    IN  IF Len(range) = 0
        THEN [start |-> Tip(new), end |-> Tip(new)]
        ELSE [start |-> range[1][2].number, end |-> range[Len(range)][2].number]

\* logs.extend(..) for every block of the range
RECURSIVE RangeLogs(_, _, _)
RangeLogs(new, from, to) ==
    IF from > to THEN <<>>
    ELSE LogsOrEmpty(new, from) \o RangeLogs(new, from + 1, to)

\* the Reorg arm
OnReorg(this, old, new, overflow_checks) ==
    LET start == WindowStart(Tip(new), overflow_checks)
    IN  IF start.kind = "panic"
        THEN [this |-> this, pc |-> "panicked", item |-> None]
        ELSE LET range == ReorgRange(old, new, start)
             IN  [this |-> [last_logs |-> RangeLogs(new, range.start, range.end),
                            last_block_number |-> Tip(new)],
                  pc |-> "open",
                  item |-> Some(Reorg(Tip(new), range))]

\* one iteration of the unfold closure of subscribe_blocks on a notification:
\* `let this = self.clone()`, and the arm of the notification writes to this
SubscribeBlocksStep(self, notification, overflow_checks) ==
    LET this == CloneAdapter(self)
    IN  IF notification.type = "Commit"
        THEN OnCommit(this, notification.new)
        ELSE OnReorg(this, notification.old, notification.new, overflow_checks)

BlockNumberOrTags ==
    {[tag |-> "Latest", n |-> 0]} \cup [tag : {"Number"}, n : 0..MaxFilterBlock]

BlockOptions ==
    {[type |-> "AtBlockHash", from_block |-> None, to_block |-> None]}
    \cup [type : {"Range"},
          from_block : {None} \cup {Some(b) : b \in BlockNumberOrTags},
          to_block : {None} \cup {Some(b) : b \in BlockNumberOrTags}]

\* Filter: a FilterSet is a set of values, the empty one standing for any
\* value; topics is an array of four FilterSets
TopicFilters == {<<{}, {}, {}, {}>>, <<{1}, {}, {}, {}>>, <<{1}, {1}, {1}, {1}>>}

Filters ==
    [block_option : BlockOptions, address : {{}, {1}}, topics : TopicFilters]

\* FilterSet::matches
FilterSetMatches(set, value) == set = {} \/ value \in set

\* validate_filter accepting a range whose from_block alone is the last block
ValidateFilterFromOnly(a, filter) ==
    LET last_block == a.last_block_number
        is_last(b) == IsSome(b) /\ b[1].tag = "Number" /\ last_block = b[1].n
    IN  IF filter.block_option.type = "Range"
        THEN is_last(filter.block_option.from_block)
        ELSE TRUE

\* CanonicalStateAdapter::validate_filter: TRUE for Ok(()), FALSE for
\* Err(InvalidBlockRange)
ValidateFilter(a, filter) ==
    LET last_block == a.last_block_number
        is_last(b) == IsSome(b) /\ b[1].tag = "Number" /\ last_block = b[1].n
    IN  IF filter.block_option.type = "Range"
        THEN ~(~is_last(filter.block_option.from_block)
               \/ ~is_last(filter.block_option.to_block))
        ELSE TRUE

\* CanonicalStateAdapter::log_matches_filter: a missing topic is B256::ZERO
LogMatchesFilter(log, filter) ==
    /\ FilterSetMatches(filter.address, log.address)
    /\ \E i \in 1..Len(filter.topics) :
          FilterSetMatches(filter.topics[i],
                           IF i <= Len(log.topics) THEN log.topics[i] ELSE 0)

\* CanonicalStateAdapter::get_logs
GetLogsOp(a, filter) ==
    IF ~ValidateFilter(a, filter)
    THEN [ok |-> FALSE, err |-> "InvalidBlockRange", logs |-> <<>>]
    ELSE [ok |-> TRUE, err |-> "",
          logs |-> SelectSeq(a.last_logs, LAMBDA log : LogMatchesFilter(log, filter))]

\* the logs of the blocks of even and of odd number
CommitOutcomes ==
    {[n \in 0..1 |-> <<>>],
     [n \in 0..1 |-> IF n = 0 THEN <<LogA>> ELSE <<LogA, LogB>>],
     [n \in 0..1 |-> IF n = 0 THEN <<LogA, LogB>> ELSE <<LogA>>]}

ReorgOutcomes == {[n \in 0..1 |-> IF n = 0 THEN <<LogA>> ELSE <<LogA, LogB>>]}

CommitNotifications ==
    {[type |-> "Commit", old |-> new, new |-> new] :
       new \in UNION {Chains({f}, {f, f + 1}, {f}, "new", CommitOutcomes) :
                        f \in ChainFirsts}}

\* the old and the new chain of a reorg start behind the same block
ReorgsBehind(f) ==
    UNION {[type : {"Reorg"},
            old : Chains({f}, ChainTips, {k}, "old", {[n \in 0..1 |-> <<>>]}),
            new : Chains({f}, ChainTips, {k}, "new",
                         ReorgOutcomes)] :
             k \in {f, f + 1, MaxTip + 1}}

ReorgNotifications == UNION {ReorgsBehind(f) : f \in ChainFirsts}

Notifications == CommitNotifications \cup ReorgNotifications

\* the caller kept a clone of the new adapter and gave the other to
\* subscribe_blocks
AdapterInit ==
    /\ adapter = CloneAdapter(AdapterNew)
    /\ stream = [self |-> AdapterNew, this |-> None, pc |-> "open"]
    /\ received = None
    /\ yielded = None
    /\ got = None

\* the stream is polled and a notification is received
StreamNext ==
    /\ stream.pc = "open"
    /\ \E notification \in Notifications, overflow_checks \in BOOLEAN :
         \E r \in {SubscribeBlocksStep(stream.self, notification, overflow_checks)} :
             /\ stream' = [stream EXCEPT !.this = Some(r.this), !.pc = r.pc]
             /\ received' = Some(notification)
             /\ yielded' = r.item
    /\ UNCHANGED <<adapter, got, matcherVars, bidVars, commitVars, poolVars, simVars>>

\* recv() fails (the sender is gone or the receiver lagged): the stream ends
StreamEnd ==
    /\ stream.pc = "open"
    /\ stream' = [stream EXCEPT !.pc = "ended"]
    /\ UNCHANGED <<adapter, received, yielded, got,
                 matcherVars, bidVars, commitVars, poolVars, simVars>>

\* the caller calls get_logs on its adapter
GetLogs ==
    /\ \E filter \in Filters :
         got' = Some([filter |-> filter, ret |-> GetLogsOp(adapter, filter)])
    /\ UNCHANGED <<adapter, stream, received, yielded,
                 matcherVars, bidVars, commitVars, poolVars, simVars>>

AdapterNext == StreamNext \/ StreamEnd \/ GetLogs

\* get_logs as a function of the adapter it is called on
AdapterStates == [last_logs : LogLists, last_block_number : 0..MaxFilterBlock]

GetLogsInit ==
    /\ adapter \in AdapterStates
    /\ stream = [self |-> AdapterNew, this |-> None, pc |-> "open"]
    /\ received = None
    /\ yielded = None
    /\ got = None

GetLogsNext == GetLogs

(***************************************************************************)
(* Specifications: one per subsystem, the other subsystems at rest         *)
(***************************************************************************)
MatcherIdle ==
    /\ book = [bids |-> <<>>, asks |-> <<>>, amm |-> None]
    /\ matcher = NewMatcher(book)
    /\ reason = "None"
    /\ last = "new"

MatcherSpecInit ==
    MatcherInit /\ BidInit /\ block_height = 1 /\ CommitInit /\ PoolInit /\ SimInit
    /\ AdapterInit

BidSpecInit == BidInit /\ MatcherIdle /\ CommitInit /\ PoolInit /\ SimInit
    /\ AdapterInit

CommitSpecInit ==
    CommitInit /\ MatcherIdle /\ BidInit /\ block_height = 1 /\ PoolInit /\ SimInit
    /\ AdapterInit

PoolSpecInit ==
    PoolInit /\ MatcherIdle /\ BidInit /\ block_height = 1 /\ CommitInit /\ SimInit
    /\ AdapterInit

SimSpecInit ==
    SimInit /\ MatcherIdle /\ BidInit /\ block_height = 1 /\ CommitInit /\ PoolInit
    /\ AdapterInit

MatcherSpec == MatcherSpecInit /\ [][MatcherNext]_vars

RunMatchSpec == MatcherSpecInit /\ [][RunMatchNext]_vars

RestoreSpec == MatcherSpecInit /\ [][RestoreNext]_vars

BidSpec == BidSpecInit /\ [][BidNext]_vars

\* a round of a validator (BidAggregation) or of the leader (Propose)
RoundSpecInit ==
    (BidInit \/ ProposeInit) /\ MatcherIdle /\ CommitInit /\ PoolInit /\ SimInit
    /\ AdapterInit

RoundSpec == RoundSpecInit /\ [][RoundNext]_vars

\* the executor polls a woken task and the timer fires: both happen eventually
FairBidSpec == BidSpec /\ WF_vars(PollTransition) /\ WF_vars(TimeoutElapses)

CommitSpec == CommitSpecInit /\ [][CommitNext]_vars

PoolSpec == PoolSpecInit /\ [][PoolNext]_vars

PoolCloseSpec == PoolSpecInit /\ [][PoolCloseNext]_vars

PoolHandleSpec == PoolSpecInit /\ [][PoolHandleNext]_vars

SimSpec == SimSpecInit /\ [][SimNext]_vars

AdapterSpecInit ==
    AdapterInit /\ MatcherIdle /\ BidInit /\ block_height = 1 /\ CommitInit /\ PoolInit
    /\ SimInit

GetLogsSpecInit ==
    GetLogsInit /\ MatcherIdle /\ BidInit /\ block_height = 1 /\ CommitInit /\ PoolInit
    /\ SimInit

AdapterSpec == AdapterSpecInit /\ [][AdapterNext]_vars

GetLogsSpec == GetLogsSpecInit /\ [][GetLogsNext]_vars

(***************************************************************************)
(* The matcher's claims                                                    *)
(***************************************************************************)
\* the matcher held in the checkpoint slot
Cp == matcher.checkpoint[1]

\* C1: run_match returns an end reason after finitely many single_match
\* iterations, with or without an AMM and with or without debt.  run_match
\* calls single_match again on the matcher the last call left; single_match
\* is a function of the matcher and the book, so run_match ends only if no
\* call both returns no end reason and leaves the matcher as it found it.
C1_RunMatchEnds == ~(reason = "None" /\ last = "unchanged")

\* C2: the stored checkpoint never records a PartialFill outcome for a book
\* order that is not partial-safe, in any state single_match calls reach
\* from new() (no debt was set on the matcher).
C2_CheckpointPartialSafe ==
    IsNone(matcher.debt) =>
        /\ \A i \in 1..Len(book.bids) :
              Cp.bid_outcomes[i].kind = "PartialFill" => book.bids[i].partial
        /\ \A i \in 1..Len(book.asks) :
              Cp.ask_outcomes[i].kind = "PartialFill" => book.asks[i].partial

\* C3: when fill_amm fails inside single_match the matcher returns
\* ErrorEncountered and its live results, outcome vectors, AMM price and AMM
\* outcome equal those of the last checkpoint.  (Without debt the failure of
\* fill_amm is the only source of ErrorEncountered.)
C3_FailedFillAmmRolledBack ==
    (reason = "ErrorEncountered" /\ IsNone(matcher.debt)) =>
        /\ matcher.results = Cp.results
        /\ matcher.bid_outcomes = Cp.bid_outcomes
        /\ matcher.ask_outcomes = Cp.ask_outcomes
        /\ matcher.amm_price = Cp.amm_price
        /\ matcher.amm_outcome = Cp.amm_outcome

\* C4: in every state reached from new() by single_match calls that returned
\* no end reason, the checkpoint's total_volume is at most the live one.
C4_CheckpointVolumeBelowLive ==
    reason = "None" => Cp.results.total_volume <= matcher.results.total_volume

\* a call that matched volume without saving a checkpoint
C4_Witness ==
    /\ reason = "None"
    /\ last = "changed"
    /\ Cp.results.total_volume < matcher.results.total_volume

EmptyBook == book.bids = <<>> /\ book.asks = <<>> /\ IsNone(book.amm)

\* C5: over a book with no bids, no asks and no AMM the matcher built by
\* new() has a solution with ucp 0 and no limit outcomes and a total_volume
\* of 0, and a run_match ends with its first single_match and changes none
\* of these.
C5_EmptyBookSolution ==
    (EmptyBook /\ IsNone(matcher.debt)) =>
        /\ Solution(matcher).ucp = 0
        /\ Solution(matcher).limit = <<>>
        /\ matcher.results.total_volume = 0
        /\ last # "new" => reason = "NoMoreBids"

\* run_match has run over the empty book
C5_Witness == EmptyBook /\ IsNone(matcher.debt) /\ reason = "NoMoreBids"

\* C6: after new() and after any single_match, run_match and fill calls the
\* matcher holds a checkpoint whose own checkpoint slot is empty, and the
\* matcher from_checkpoint() returns has no checkpoint.
C6_CheckpointHoldsNone ==
    /\ IsSome(matcher.checkpoint)
    /\ IsNone(Cp.checkpoint)
    /\ IsSome(FromCheckpoint(matcher))
    /\ FromCheckpoint(matcher)[1].checkpoint = None

\* a checkpoint saved after volume was matched, over a matcher that has one
C6_Witness ==
    /\ last = "changed"
    /\ Cp.results.total_volume > 0
    /\ Cp.results.total_volume < matcher.results.total_volume

(***************************************************************************)
(* BidAggregation's claims                                                 *)
(***************************************************************************)
\* C7: within one round a node accepts at most one Proposal: of two Proposals
\* that pass verify_proposal during BidAggregation before the next
\* poll_transition, only the first is kept and carried forward.
C7_FirstProposalCarried ==
    /\ IsSome(ba.proposal) => ba.proposal[1] = accepted[1]
    /\ round.name = "Finalization" => round.proposal = accepted[1]

\* C8: a Proposal that arrives during BidAggregation and passes
\* verify_proposal wakes the state, and the next poll_transition moves
\* directly to Finalization carrying that proposal, even when the timeout has
\* elapsed: the step that leaves BidAggregation after proposals were accepted
\* is taken by a woken state, ends in Finalization, and carries each of them.
C8_NextPollCarriesProposal ==
    [][(round.name = "BidAggregation" /\ accepted # <<>> /\ round' # round) =>
          /\ woken
          /\ round'.name = "Finalization"
          /\ \A i \in 1..Len(accepted) : round'.proposal = accepted[i]]_vars

\* C9: if no Proposal was accepted, the poll that follows the elapsed timeout
\* moves BidAggregation to PreProposal for the current block height with
\* exactly the PreProposals and PreProposalAggregations accumulated, and
\* PreProposal is reached in no other way; as long as no Proposal is
\* accepted the transition eventually happens.
C9_TimeoutToPreProposal ==
    /\ [](round.name = "PreProposal" =>
            /\ accepted = <<>>
            /\ ba_timeout = "elapsed"
            /\ round.height = block_height
            /\ round.pre_proposals = inserted.pre_proposals
            /\ round.aggregations = inserted.aggregations)
    /\ [][(/\ round.name = "BidAggregation"
           /\ accepted = <<>>
           /\ ba_timeout = "elapsed"
           /\ woken /\ ~woken') => round'.name = "PreProposal"]_vars
    /\ ([](accepted = <<>>) => <>(round.name = "PreProposal"))

\* PreProposal reached with PreProposals and aggregations accumulated
C9_Witness ==
    /\ round.name = "PreProposal"
    /\ round.pre_proposals # {}
    /\ round.aggregations # {}

(***************************************************************************)
(* Commit's claims                                                         *)
(***************************************************************************)
\* C10: after a Commit is created for validator a and add_signature(b, sk_b)
\* succeeds on it (b another validator, sk_b its key), the bitmap has exactly
\* the bits {a, b}, num_signed is 2, signed_by(v) holds exactly for a and b,
\* and is_valid holds against the ordered public-key library.
C10_BitmapOfBothSigners ==
    (/\ IsSome(commit)
     /\ Len(added) = 1
     /\ added[1].validator # signer[1]
     /\ added[1].sk = KeyOf(added[1].validator)) =>
        LET ab == {signer[1], added[1].validator}
        IN  /\ ValidatorMap(commit[1]) = ab
            /\ NumSigned(commit[1]) = Cardinality(ab)
            /\ \A v \in Validators : SignedBy(commit[1], v) <=> v \in ab
            /\ IsValid(commit[1], Library)

\* C11: adding the signatures of any two validators a and b to the same Commit
\* in either order yields the same validator bitmap and the same is_valid
\* result, and adding the same validator twice does not change the bitmap.
C11_AddSignatureCommutes ==
    IsSome(commit) =>
        \A a, b \in Validators, ska, skb \in SecretKeys :
            \E ca \in {AddSignatureOp(commit[1], a, ska).c},
               cb \in {AddSignatureOp(commit[1], b, skb).c} :
                \E cab \in {AddSignatureOp(ca, b, skb).c},
                   cba \in {AddSignatureOp(cb, a, ska).c} :
                    /\ ValidatorMap(cab) = ValidatorMap(cba)
                    /\ IsValid(cab, Library) = IsValid(cba, Library)
                    /\ ValidatorMap(AddSignatureOp(ca, a, ska).c) = ValidatorMap(ca)

\* two validators added their signatures, one after the other, and the
\* aggregate is valid
C11_Witness ==
    /\ Len(added) = 2
    /\ added[1].validator # added[2].validator
    /\ signer[1] \notin {added[1].validator, added[2].validator}
    /\ IsValid(commit[1], Library)

\* C12: the preproposal_hash from_proposal computes is the same for any two
\* Proposals whose preproposals lists are permutations of each other.
C12_HashPermutationInvariant ==
    IsSome(proposal) =>
        \A q \in Proposals :
            (/\ Len(q.preproposals) = Len(proposal[1].preproposals)
             /\ {q.preproposals[i] : i \in 1..Len(q.preproposals)}
                  = {proposal[1].preproposals[i] :
                        i \in 1..Len(proposal[1].preproposals)}) =>
                FromProposal(q, KeyOf(q.source)).preproposal_hash
                    = commit[1].preproposal_hash

\* a library that holds the public key of pk at validator index idx
LibraryWith(idx, pk) ==
    [i \in 1..NumValidators |-> IF i = idx + 1 THEN pk ELSE Library[i]]

\* the commits that differ from c in one of the three signed fields
Tampered(c) ==
    {[c EXCEPT !.block_height = h] : h \in (1..(MaxHeight + 1)) \ {c.block_height}}
    \cup {[c EXCEPT !.preproposal_hash = h] :
            h \in {Keccak256(Bincode(l)) : l \in Lists(1..MaxMsgs, MaxMsgs)}
                     \ {c.preproposal_hash}}
    \cup {[c EXCEPT !.solution_hash = h] :
            h \in {Keccak256(Bincode(l)) : l \in Lists(1..MaxMsgs, MaxMsgs)}
                     \ {c.solution_hash}}

C14_TransitionsBeforeOrders ==
    [][Len(indexer'.pending) > Len(indexer.pending) =>
          \A i \in 1..Len(chan["eth"]) :
              chan["eth"][i].kind # "NewBlockTransitions"]_vars

\* C15: in each poll all ready eth events are handled before any ready
\* network event, those before any ready RPC command, those before any ready
\* peer order event, those before any indexer output, and the poll then
\* returns Pending: an item is taken only by the loop of its stream, a loop is
\* left only when its stream has nothing ready, for the loop that is next in
\* this order, and the last loop is left for the return of Pending.
C15_FixedPriorityDrain ==
    [][LET order == <<"eth", "net", "cmd", "ord", "idx">>
           rank(ch) == CHOOSE i \in 1..5 : order[i] = ch
       IN  /\ \A ch \in Streams : Len(chan'[ch]) < Len(chan[ch]) => pm_pc = ch
           /\ (pm_pc = "idle" /\ pm_pc' # "idle") => pm_pc' = order[1]
           /\ (pm_pc \in Streams /\ pm_pc' # pm_pc) =>
                 /\ chan[pm_pc] = <<>>
                 /\ IF pm_pc = order[5]
                    THEN pm_pc' = "idle" /\ poll_ret' = "Pending"
                    ELSE pm_pc' = order[rank(pm_pc) + 1]]_vars

\* polls that took a block transition, a session event, a command and a
\* batch of the indexer have returned
C15_Witness ==
    /\ pm_pc = "idle"
    /\ poll_ret = "Pending"
    /\ indexer.block > 0
    /\ \E p \in PeerIds : IsSome(peers[p])
    /\ \E i \in 1..Len(requests) : requests[i].tx \in ValidationResults
    /\ IsSome(net_out.broadcast)

\* C16: when the manager propagates a newly valid order to the network, the
\* order is not sent to a peer whose seen-orders cache holds the order's
\* hash, in particular not back to the peer it came from.
C16_NoGossipToSeenPeers ==
    [][Len(chan'["idx"]) < Len(chan["idx"]) =>
          \A p \in net_out'.recipients :
              \A h \in Elems(net_out'.broadcast[1]) :
                  h \notin Elems(peers[p][1].orders.items)]_vars

\* C17: when an inbound stream of the manager is closed, the manager's
\* future completes instead of returning Pending: a poll that met the end of
\* a stream returns Ready.
C17_ClosedStreamEndsTask ==
    (pm_pc = "idle" /\ saw_none) => poll_ret = "Ready"

\* C18: the future new_order returns resolves exactly once per submitted
\* order, to true if and only if the validation result is Valid, to false
\* for Invalid, for TransitionedToBlock and when the manager or the sender
\* of the response was dropped, and it never panics.
C18_NewOrderResolvesOnce ==
    /\ [](\A i \in 1..Len(requests) :
            /\ requests[i].future \in {"pending", "true", "false"}
            /\ requests[i].future = "pending" => requests[i].resolved = 0
            /\ requests[i].future # "pending" =>
                 /\ requests[i].resolved = 1
                 /\ requests[i].tx \in ValidationResults \cup {"dropped"}
                 /\ requests[i].future = "true" <=> requests[i].tx = "Valid")
    /\ [][\A i \in 1..Len(requests) :
            requests[i].future # "pending" => requests'[i] = requests[i]]_vars

\* a future resolved to false on TransitionedToBlock
C18_Witness ==
    \E i \in 1..Len(requests) :
        /\ requests[i].future = "false"
        /\ requests[i].tx = "TransitionedToBlock"

\* C19: for each BadOrderMessages(peers) of a batch the network layer gets
\* exactly one InvalidOrder reputation change per listed peer, the event adds
\* no order to the broadcast or to the subscriber updates, and the other
\* orders of the batch are still propagated.
C19_BadOrderPenalizesListedPeers ==
    LET b == net_out.batch
        listings(p) == {ij \in (1..Len(b)) \X (1..(MaxArrivals * MaxOrderList)) :
                          /\ b[ij[1]].kind = "BadOrderMessages"
                          /\ ij[2] <= Len(b[ij[1]].peers)
                          /\ b[ij[1]].peers[ij[2]] = p}
        changes(p) == {i \in 1..Len(net_out.reputation) :
                          net_out.reputation[i].peer = p}
        propagated == SelectSeq(b, LAMBDA e : e.kind = "Propagation")
    IN  /\ \A p \in PeerIds : Cardinality(changes(p)) = Cardinality(listings(p))
        /\ \A i \in 1..Len(net_out.reputation) :
              net_out.reputation[i].kind = "InvalidOrder"
        /\ net_out.updates = [i \in 1..Len(propagated) |-> propagated[i].order]
        /\ IsSome(net_out.broadcast) =>
              net_out.broadcast[1] = [i \in 1..Len(propagated) |-> propagated[i].order]

\* a batch with a valid order and an invalid order two peers had sent
C19_Witness ==
    /\ \E i \in 1..Len(net_out.batch) :
          /\ net_out.batch[i].kind = "BadOrderMessages"
          /\ Len(net_out.batch[i].peers) = 2
    /\ \E i \in 1..Len(net_out.batch) : net_out.batch[i].kind = "Propagation"
    /\ Len(net_out.reputation) = 2
    /\ Len(net_out.updates) = 1

\* C20: in every reachable state each tracked peer's seen-orders cache holds
\* at most PEER_ORDER_CACHE_LIMIT hashes, and recording hashes in a cache
\* keeps the most recently used ones up to the limit: a hash recorded in a
\* full cache takes the place of the least recently used one.
C20_PeerCacheBounded ==
    /\ [](\A p \in PeerIds :
            IsSome(peers[p]) =>
                Len(peers[p][1].orders.items) <= PEER_ORDER_CACHE_LIMIT)
    /\ [][\A p \in PeerIds :
            (/\ Len(chan'["ord"]) < Len(chan["ord"])
             /\ Head(chan["ord"]).peer = p
             /\ IsSome(peers[p])) =>
                LET used == peers[p][1].orders.items \o Head(chan["ord"]).orders
                    recent == SelectSeq([i \in 1..Len(used) |-> i],
                                 LAMBDA i : \A j \in (i + 1)..Len(used) :
                                               used[j] # used[i])
                    drop == IF Len(recent) > PEER_ORDER_CACHE_LIMIT
                            THEN Len(recent) - PEER_ORDER_CACHE_LIMIT ELSE 0
                IN  peers'[p][1].orders.items =
                       [i \in 1..(Len(recent) - drop) |-> used[recent[i + drop]]]]_vars

\* a tracked peer sent [1, 2] and then [1, 3]: its full cache holds 1 and 3
C20_Witness ==
    \E p \in PeerIds :
        /\ IsSome(peers[p])
        /\ peers[p][1].orders.items = <<1, 3>>
        /\ [i \in 1..Len(indexer.pending) |-> indexer.pending[i].order] = <<1, 2, 1, 3>>
        /\ \A i \in 1..Len(indexer.pending) : indexer.pending[i].peer = p


(***************************************************************************)
(* The matcher's claims on the arms of single_match, on fill, on           *)
(* solution and on next_order                                              *)
(***************************************************************************)
\* the orders a single_match call selects in the current state
SelectedBid ==
    NextOrder(TRUE, matcher.bid_idx, matcher.debt, matcher.amm_price,
              book.bids, matcher.bid_outcomes)

SelectedAsk ==
    NextOrder(FALSE, matcher.ask_idx, matcher.debt, matcher.amm_price,
              book.asks, matcher.ask_outcomes)

\* OrderContainer::BookOrder: neither AMM nor Composite
IsBookOrder(o) == o.type = "BookOrder"

\* single_match gets past its early returns with both orders selected
Crossing ==
    /\ SelectedBid.kind = "order"
    /\ SelectedAsk.kind = "order"
    /\ ~(IsAmm(SelectedBid.o) /\ IsAmm(SelectedAsk.o))
    /\ Price(SelectedAsk.o) <= Price(SelectedBid.o)

BidQ == Quantity(SelectedBid.o, Price(SelectedAsk.o))
AskQ == Quantity(SelectedAsk.o, Price(SelectedBid.o))

\* C24: in single_match, when a crossing bid and ask offer equal non-zero
\* quantities (and the AMM move, if any, succeeds), results.price becomes
\* floor((bid.price + ask.price) / 2), each side's outcome at its current
\* index becomes CompleteFill exactly when that side's selected order is a
\* book order and the side's outcomes are untouched otherwise, and a
\* checkpoint of the resulting state is saved.
C24_EqualQuantities ==
    [][(SingleMatch /\ Crossing /\ BidQ = AskQ /\ BidQ # 0
            /\ reason' # "ErrorEncountered") =>
          /\ reason' = "None"
          /\ matcher'.results.price =
                Some((Price(SelectedBid.o) + Price(SelectedAsk.o)) \div 2)
          /\ matcher'.bid_outcomes =
                IF IsBookOrder(SelectedBid.o)
                THEN SetOutcome(matcher.bid_outcomes, SelectedBid.idx, CompleteFill)
                ELSE matcher.bid_outcomes
          /\ matcher'.ask_outcomes =
                IF IsBookOrder(SelectedAsk.o)
                THEN SetOutcome(matcher.ask_outcomes, SelectedAsk.idx, CompleteFill)
                ELSE matcher.ask_outcomes
          /\ matcher'.checkpoint = Some([matcher' EXCEPT !.checkpoint = None])
      ]_vars


\* the larger and the smaller side of a crossing pair with unequal quantities
BidOutweighs == BidQ > AskQ

\* a book of one bid and one ask that cross with unequal quantities, no AMM
OnePairBook ==
    /\ Len(book.bids) = 1
    /\ Len(book.asks) = 1
    /\ IsNone(book.amm)
    /\ book.asks[1].price <= book.bids[1].price
    /\ book.bids[1].qty # book.asks[1].qty

\* C25: for a crossing pair of book orders with unequal quantities,
\* single_match sets results.price to the price of the larger side, marks
\* the smaller side CompleteFill and the larger side PartialFill(matched)
\* with matched the smaller quantity, and saves a checkpoint of this state
\* when the larger side is partial-safe; and after fill() over a book of one
\* such pair whose larger side is partial-safe, the solution of the
\* checkpoint has ucp equal to the larger side's price.
C25_LargerSideSetsPrice ==
    [][/\ (SingleMatch /\ Crossing /\ BidQ # AskQ
              /\ IsBookOrder(SelectedBid.o) /\ IsBookOrder(SelectedAsk.o)) =>
            /\ reason' = "None"
            /\ matcher'.results.price =
                  Some(IF BidOutweighs THEN Price(SelectedBid.o)
                       ELSE Price(SelectedAsk.o))
            /\ matcher'.bid_outcomes =
                  SetOutcome(matcher.bid_outcomes, SelectedBid.idx,
                             IF BidOutweighs THEN PartialFill(AskQ) ELSE CompleteFill)
            /\ matcher'.ask_outcomes =
                  SetOutcome(matcher.ask_outcomes, SelectedAsk.idx,
                             IF BidOutweighs THEN CompleteFill ELSE PartialFill(BidQ))
            /\ IsPartial(IF BidOutweighs THEN SelectedBid.o ELSE SelectedAsk.o) =>
                  matcher'.checkpoint = Some([matcher' EXCEPT !.checkpoint = None])
       /\ (Fill /\ last = "new" /\ OnePairBook
              /\ (IF book.bids[1].qty > book.asks[1].qty
                  THEN book.bids[1].partial ELSE book.asks[1].partial)) =>
            Solution(FromCheckpoint(matcher')[1]).ucp =
                IF book.bids[1].qty > book.asks[1].qty
                THEN book.bids[1].price ELSE book.asks[1].price
      ]_vars

\* fill() ran over a book of one partial-safe bid of quantity 2 and one ask of
\* quantity 1: the bid is PartialFill(1), the ask CompleteFill, and the
\* checkpoint's solution carries the bid's price
C25_Witness ==
    /\ OnePairBook
    /\ IsNone(matcher.debt)
    /\ book.bids[1].partial
    /\ book.bids[1].qty = 2
    /\ book.bids[1].price > book.asks[1].price
    /\ reason = "NoMoreBids"
    /\ matcher.bid_outcomes = <<PartialFill(1)>>
    /\ matcher.ask_outcomes = <<CompleteFill>>
    /\ Solution(Cp).ucp = book.bids[1].price
    /\ Solution(Cp).limit = Solution(matcher).limit


\* C26: solution() returns exactly one OrderOutcome per book order, all bids
\* in book order followed by all asks in book order, each pairing that
\* order's id with its current fill state; ucp is the price matching set
\* last (results.price), or zero when no match set a price, as on the
\* matcher new() returns.
C26_SolutionListsEveryOrder ==
    LET sol == Solution(matcher)
        nb == Len(book.bids)
        na == Len(book.asks)
    IN  /\ Len(sol.limit) = nb + na
        /\ \A i \in 1..nb :
              sol.limit[i] = [id |-> <<"bid", i - 1>>, outcome |-> matcher.bid_outcomes[i]]
        /\ \A i \in 1..na :
              sol.limit[nb + i] =
                  [id |-> <<"ask", i - 1>>, outcome |-> matcher.ask_outcomes[i]]
        /\ IsSome(matcher.results.price) => sol.ucp = matcher.results.price[1]
        /\ IsNone(matcher.results.price) => sol.ucp = 0
        /\ last = "new" => sol.ucp = 0

\* two bids and an ask after a match: the solution lists a filled bid, an
\* untouched bid and a partially filled ask, under a price that was set
C26_Witness ==
    /\ Len(book.bids) = 2
    /\ Len(book.asks) = 1
    /\ Solution(matcher).ucp = book.asks[1].price
    /\ Solution(matcher).limit[1].outcome = CompleteFill
    /\ Solution(matcher).limit[2].outcome = Unfilled
    /\ Solution(matcher).limit[3].outcome = PartialFill(1)


\* the outcome at a side's current index is PartialFill
PartialAt(fs, idx) == InRange(fs, idx) /\ fs[idx + 1].kind = "PartialFill"

\* C27: when the outcome at a side's current index is PartialFill,
\* next_order selects that same book order again, so the remainder of a
\* partially filled order is offered before any later order rather than
\* skipped for the next Unfilled entry (stated where neither a debt nor an
\* AMM price competes with the book).
C27_PartialFillSelectedAgain ==
    (IsNone(matcher.debt) /\ IsNone(matcher.amm_price)) =>
        /\ PartialAt(matcher.bid_outcomes, matcher.bid_idx) =>
              /\ SelectedBid.kind = "order"
              /\ IsBookOrder(SelectedBid.o)
              /\ SelectedBid.idx = matcher.bid_idx
        /\ PartialAt(matcher.ask_outcomes, matcher.ask_idx) =>
              /\ SelectedAsk.kind = "order"
              /\ IsBookOrder(SelectedAsk.o)
              /\ SelectedAsk.idx = matcher.ask_idx


\* the place of the next Unfilled entry of a side at or after idx, or the
\* side's length when there is none
NextUnfilledAt(fs, idx) ==
    IF \E i \in idx..(Len(fs) - 1) : fs[i + 1] = Unfilled
    THEN CHOOSE i \in idx..(Len(fs) - 1) :
             /\ fs[i + 1] = Unfilled
             /\ \A j \in idx..(i - 1) : fs[j + 1] # Unfilled
    ELSE Len(fs)

\* what C28 says of one side: sel is what next_order selected
AmmOnlyWhenStrictlyBetter(is_bid, sel, side, fs, idx) ==
    LET cur == NextUnfilledAt(fs, idx)
        has_book == cur < Len(side)
        amm == matcher.amm_price
        better == /\ IsSome(amm)
                  /\ has_book
                  /\ IF is_bid THEN amm[1] > side[cur + 1].price
                               ELSE amm[1] < side[cur + 1].price
        alone == IsSome(amm) /\ ~has_book
    IN  /\ (sel.kind = "order" /\ IsAmm(sel.o)) <=> (better \/ alone)
        /\ (sel.kind = "order" /\ IsAmm(sel.o)) =>
              /\ IsComposite(sel.o)
              /\ sel.o.debt = None
              /\ sel.o.amm = amm
              /\ sel.o.bound = IF has_book THEN Some(side[cur + 1].price) ELSE None
        /\ (has_book /\ ~better) =>
              /\ sel.kind = "order"
              /\ sel.o = BookContainer(side, cur)
        /\ (~has_book /\ IsNone(amm)) => sel.kind = "none"

\* C28: with no debt, next_order returns an AMM-backed order for a side only
\* when the AMM price is strictly more advantageous than the next unfilled
\* book order's price (strictly higher for bids, strictly lower for asks) or
\* when no book order remains; when the two prices are equal it returns the
\* book order; and an AMM order it emits is bounded by that book order's
\* price.
C28_AmmOnlyWhenStrictlyBetter ==
    IsNone(matcher.debt) =>
        /\ AmmOnlyWhenStrictlyBetter(TRUE, SelectedBid, book.bids,
                                     matcher.bid_outcomes, matcher.bid_idx)
        /\ AmmOnlyWhenStrictlyBetter(FALSE, SelectedAsk, book.asks,
                                     matcher.ask_outcomes, matcher.ask_idx)

\* a single_match call met a bid at the AMM price, which it selected from the
\* book, and a dearer ask, for which it selected the AMM bounded by the ask
C28_Witness ==
    /\ IsNone(matcher.debt)
    /\ Len(book.asks) = 1
    /\ last = "unchanged"
    /\ IsSome(matcher.amm_price)
    /\ IsBookOrder(SelectedBid.o)
    /\ SelectedBid.kind = "order"
    /\ Price(SelectedBid.o) = matcher.amm_price[1]
    /\ SelectedAsk.kind = "order"
    /\ IsAmm(SelectedAsk.o)
    /\ SelectedAsk.o.bound = Some(book.asks[1].price)


\* the orders a turn of fill's loop selects on matcher m
FillBid(m) == NextOrderFromBook(TRUE, m.bid_idx, book.bids, m.bid_outcomes, m.amm_price)

FillAsk(m) == NextOrderFromBook(FALSE, m.ask_idx, book.asks, m.ask_outcomes, m.amm_price)

\* C29: when no order can be selected for the bid side the matcher ends with
\* NoMoreBids, and when a bid but no order for the ask side can be selected
\* it ends with NoMoreAsks: for a single_match call (run_match returns what
\* its last single_match returned) and for fill, whose last turn selects on
\* the matcher that fill leaves behind.
C29_EndReasonNamesEmptySide ==
    [][/\ SingleMatch =>
            /\ SelectedBid.kind = "none" => reason' = "NoMoreBids"
            /\ (SelectedBid.kind = "order" /\ SelectedAsk.kind = "none") =>
                  reason' = "NoMoreAsks"
       /\ Fill =>
            /\ FillBid(matcher').kind = "none" => reason' = "NoMoreBids"
            /\ (FillBid(matcher').kind = "order" /\ FillAsk(matcher').kind = "none") =>
                  reason' = "NoMoreAsks"
      ]_vars


\* price a is strictly more advantageous than price b on a side: higher for
\* a bid, lower for an ask
MoreAdvantageous(is_bid, a, b) == IF is_bid THEN a > b ELSE a < b

\* what C30 says of one side: sel is what next_order selected
DebtOverridesAmmAndBook(is_bid, sel, side, fs, idx) ==
    LET cur == NextUnfilledAt(fs, idx)
        has_book == cur < Len(side)
        amm == matcher.amm_price
        d == matcher.debt[1].price
    IN  /\ (/\ has_book
            /\ IsSome(amm)
            /\ MoreAdvantageous(is_bid, d, side[cur + 1].price)
            /\ MoreAdvantageous(is_bid, d, amm[1])) =>
              /\ sel.kind = "order"
              /\ IsComposite(sel.o)
              /\ sel.o.debt = matcher.debt
              /\ sel.o.amm = None
              /\ sel.o.bound = Some(IF is_bid THEN Max2(side[cur + 1].price, amm[1])
                                    ELSE Min2(side[cur + 1].price, amm[1]))
        /\ (/\ has_book
            /\ ~MoreAdvantageous(is_bid, d, side[cur + 1].price)
            /\ IsSome(amm) => ~MoreAdvantageous(is_bid, amm[1], side[cur + 1].price)) =>
              /\ sel.kind = "order"
              /\ sel.o = BookContainer(side, cur)

\* C30: when the debt is strictly more advantageous than both the next book
\* order and the AMM price, next_order returns a Composite that carries the
\* debt and no AMM and whose bound is the closer to the debt of the AMM price
\* and the next book order's price (the higher of the two for a bid, the
\* lower for an ask), on the bid side and on the ask side alike; when the
\* debt is not more advantageous than the next book order (nor the AMM), the
\* book order is returned.
C30_DebtOverridesAmmAndBook ==
    IsSome(matcher.debt) =>
        /\ DebtOverridesAmmAndBook(TRUE, SelectedBid, book.bids,
                                   matcher.bid_outcomes, matcher.bid_idx)
        /\ DebtOverridesAmmAndBook(FALSE, SelectedAsk, book.asks,
                                   matcher.ask_outcomes, matcher.ask_idx)


(***************************************************************************)
(* The PoolManager's claims on its peer set and on incoming orders         *)
(***************************************************************************)
\* a step of the poll that takes an item from stream st
Takes(st) == Len(chan'[st]) < Len(chan[st])

HandedOver(ev) ==
    [i \in 1..Len(ev.orders) |->
        [order |-> ev.orders[i], peer |-> ev.peer, req |-> 0, block |-> indexer.block]]

\* every order of the event handled by this step reaches the indexer exactly
\* once, after the orders handled before and in the order of the list, and
\* the events leave the stream in arrival order
HandedOnceInOrder ==
    /\ indexer'.pending = indexer.pending \o HandedOver(Head(chan["ord"]))
    /\ chan'["ord"] = Tail(chan["ord"])
    /\ \A q \in PeerIds \ {Head(chan["ord"]).peer} : peers'[q] = peers[q]

\* C22 as stated: for every IncomingOrders{peer_id, orders} event, each
\* order's hash is recorded in that peer's seen-orders LRU and the order is
\* handed to the indexer via new_network_order exactly once, with the orders
\* of one peer processed in their arrival order.
C22_EveryHashRecorded ==
    [][Takes("ord") =>
         /\ HandedOnceInOrder
         /\ IsSome(peers'[Head(chan["ord"]).peer])
         /\ \A h \in Elems(Head(chan["ord"]).orders) :
               h \in Elems(peers'[Head(chan["ord"]).peer][1].orders.items)
      ]_vars

\* C22, amended: the hashes are recorded when the manager tracks the sending
\* peer; the orders of a peer without entry are handed to the indexer all the
\* same and recorded nowhere.
C22_HashRecordedForTrackedPeer ==
    [][Takes("ord") =>
         /\ HandedOnceInOrder
         /\ IsSome(peers[Head(chan["ord"]).peer]) =>
               /\ IsSome(peers'[Head(chan["ord"]).peer])
               /\ \A h \in Elems(Head(chan["ord"]).orders) :
                     h \in Elems(peers'[Head(chan["ord"]).peer][1].orders.items)
         /\ IsNone(peers[Head(chan["ord"]).peer]) => peers' = peers
      ]_vars

\* a tracked peer sent [1, 2] and an untracked peer sent [3]: the indexer
\* holds the three orders in arrival order and the tracked peer's cache the
\* first two hashes
C22_Witness ==
    \E p, q \in PeerIds :
        /\ IsSome(peers[p])
        /\ IsNone(peers[q])
        /\ peers[p][1].orders.items = <<1, 2>>
        /\ indexer.pending = <<[order |-> 1, peer |-> p, req |-> 0, block |-> 0],
                               [order |-> 2, peer |-> p, req |-> 0, block |-> 0],
                               [order |-> 3, peer |-> q, req |-> 0, block |-> 0]>>
        /\ chan["net"] = <<>>


(***************************************************************************)
(* The BundleValidator's claim                                             *)
(***************************************************************************)
\* C23: every simulate_bundle call whose task has run has sent exactly one
\* result on its response sender, and a call whose task has not run none:
\* Ok(BundleGasDetails) with the call's conversion table and the gas used if
\* and only if the EVM call executed and succeeded, and Err when transact
\* failed or the execution result is not a success.
C23_ExactlyOneResult ==
    \A i \in 1..Len(sims) :
        /\ Len(sims[i].sent) = IF sims[i].ran THEN 1 ELSE 0
        /\ sims[i].ran =>
              /\ sims[i].sent[1].ok <=> sims[i].evm[1].kind = "Success"
              /\ sims[i].sent[1].ok =>
                    sims[i].sent[1].details =
                        [conversion_table |-> sims[i].lookup,
                         gas_used |-> sims[i].evm[1].gas]
              /\ sims[i].evm[1].kind \in {"TransactErr", "Revert", "Halt"} =>
                    /\ ~sims[i].sent[1].ok
                    /\ sims[i].sent[1].err # ""

\* two calls have run, one on a success that used gas and one on a revert
C23_Witness ==
    /\ Len(sims) = 2
    /\ sims[1].ran
    /\ sims[2].ran
    /\ sims[1].evm[1] = [kind |-> "Revert", gas |-> 1]
    /\ ~sims[1].sent[1].ok
    /\ sims[2].evm[1] = [kind |-> "Success", gas |-> MaxGas]
    /\ sims[2].sent = <<SimOk([conversion_table |-> sims[2].lookup, gas_used |-> MaxGas])>>


(***************************************************************************)
(* The matcher's claims on the debt, on the checkpoint and on the writes   *)
(* of single_match                                                         *)
(***************************************************************************)
\* the ask single_match selects behind the debt: next_order without the debt
NextAskNoDebt ==
    NextOrder(FALSE, matcher.ask_idx, None, matcher.amm_price,
              book.asks, matcher.ask_outcomes)

\* single_match enters its zero-quantity debt-ask branch and finds a crossing
\* ask behind the debt (volume.rs 181-199)
DebtAskBranch ==
    /\ Crossing
    /\ AskQ = 0
    /\ IsDebt(SelectedAsk.o)
    /\ NextAskNoDebt.kind = "order"
    /\ Price(NextAskNoDebt.o) <= Price(SelectedBid.o)

\* the negative quantity of the debt ask
DebtQ == NegativeQuantity(SelectedAsk.o, Price(SelectedBid.o))

\* C31: when the selected ask is a debt Composite offering zero quantity and
\* the next ask ignoring the debt is a crossing book order whose quantity
\* exceeds the debt's negative quantity q, single_match returns no end
\* reason, marks that book ask PartialFill(q), keeps the debt on the matcher
\* with its price moved to that ask's price, and changes no bid outcome; and
\* when the next ask is an AMM or Composite order the branch updates no ask
\* outcome.
C31_DebtAskPartialFill ==
    [][/\ (SingleMatch /\ DebtAskBranch /\ IsBookOrder(NextAskNoDebt.o)
              /\ NextAskNoDebt.o.qty > DebtQ) =>
            /\ reason' = "None"
            /\ matcher'.ask_outcomes =
                  SetOutcome(matcher.ask_outcomes, NextAskNoDebt.idx, PartialFill(DebtQ))
            /\ matcher'.debt = Some(DebtSetPrice(matcher.debt[1], Price(NextAskNoDebt.o)))
            /\ matcher'.debt[1].price = NextAskNoDebt.o.price
            /\ matcher'.bid_outcomes = matcher.bid_outcomes
       /\ (SingleMatch /\ DebtAskBranch /\ ~IsBookOrder(NextAskNoDebt.o)) =>
            matcher'.ask_outcomes = matcher.ask_outcomes
      ]_vars

\* after the step: a debt at the price of an ask that is partially filled,
\* with every bid untouched
C31_Witness ==
    /\ reason = "None"
    /\ last = "changed"
    /\ IsSome(matcher.debt)
    /\ Len(book.asks) >= 1
    /\ Len(book.bids) >= 1
    /\ matcher.ask_outcomes[1] = PartialFill(1)
    /\ book.asks[1].qty = 2
    /\ matcher.debt[1].price = book.asks[1].price
    /\ matcher.results.price = Some(book.asks[1].price)
    /\ \A i \in 1..Len(book.bids) : matcher.bid_outcomes[i] = Unfilled


\* the quantity the ask behind the debt offers (volume.rs 203-216)
NextAskQ ==
    IF IsAmm(NextAskNoDebt.o)
    THEN Min2(AmmIntersect(NextAskNoDebt.o, matcher.debt[1]),
              Quantity(NextAskNoDebt.o, Price(SelectedBid.o)))
    ELSE Quantity(NextAskNoDebt.o, Price(SelectedBid.o))

\* C32: across single_match, run_match and fill calls the matcher's debt is
\* never created or removed: None stays None, Some stays Some, fill leaves
\* the debt as it is, and single_match changes it only inside its
\* zero-quantity debt-ask branch, to the debt set_price gives for the next
\* ask's price or to the debt partial_fill gives for the matched quantity.
C32_DebtOnlyMovedByDebtBranch ==
    [][(SingleMatch \/ Fill) =>
          /\ IsSome(matcher'.debt) <=> IsSome(matcher.debt)
          /\ Fill => matcher'.debt = matcher.debt
          /\ matcher'.debt # matcher.debt =>
                /\ DebtAskBranch
                /\ \/ matcher'.debt[1] =
                         [matcher.debt[1] EXCEPT !.price = Price(NextAskNoDebt.o)]
                   \/ /\ NextAskQ < DebtQ
                      /\ matcher'.debt[1] =
                            [matcher.debt[1] EXCEPT !.price = @ + NextAskQ]
      ]_vars

\* single_match moved the debt with partial_fill: the ask behind it is filled
\* and the debt stands at a price that is not that ask's
C32_Witness ==
    /\ reason = "None"
    /\ IsSome(matcher.debt)
    /\ Len(book.asks) >= 1
    /\ matcher.ask_outcomes[1] = CompleteFill
    /\ matcher.results.price = None
    /\ matcher.debt[1].price # book.asks[1].price
    /\ Cp.debt = matcher.debt
    /\ \A i \in 1..Len(book.bids) : matcher.bid_outcomes[i] = Unfilled

(***************************************************************************)
(* The round's claims on its transitions                                   *)
(***************************************************************************)
\* C33: a round only moves forward.  The round changes only from
\* BidAggregation to PreProposal (the timeout elapsed and no proposal is
\* held) or to Finalization (an accepted proposal is held), or from Propose
\* to Submit; a poll of BidAggregation with neither a proposal nor an
\* elapsed timeout changes neither the round nor the state; PreProposal and
\* PreProposalAggregation messages never change the round; Propose is
\* scheduled from its construction and its poll moves to Submit.
C33_RoundOnlyMovesForward ==
    [][/\ round' # round =>
            \/ /\ round.name = "BidAggregation"
               /\ round'.name = "PreProposal"
               /\ ba_timeout = "elapsed"
               /\ IsNone(ba.proposal)
            \/ /\ round.name = "BidAggregation"
               /\ round'.name = "Finalization"
               /\ IsSome(ba.proposal)
               /\ accepted # <<>>
            \/ /\ round.name = "Propose"
               /\ round'.name = "Submit"
       /\ (PollEffect /\ IsNone(ba.proposal) /\ ba_timeout = "pending") =>
            /\ PollTransitionOp(ba, ba_timeout, block_height).name = "Pending"
            /\ round' = round
            /\ ba' = ba
       /\ (OnPreProposal \/ OnPreProposalAgg) => round' = round
       /\ round.name = "Propose" => (woken /\ ShouldTransition(round).ready)
       /\ ProposePoll => round'.name = "Submit"]_vars

\* Finalization reached after the timeout had elapsed and after PreProposals
\* and aggregations had been accumulated
C33_Witness ==
    /\ round.name = "Finalization"
    /\ ba_timeout = "elapsed"
    /\ inserted.pre_proposals # {}
    /\ inserted.aggregations # {}

\* C37: when verify_proposal rejects a Proposal received during
\* BidAggregation, the state is unchanged: no proposal is stored, the two
\* accumulated sets are untouched, the waker is not triggered, and the next
\* poll_transition answers as it would have without the message; while no
\* Proposal was accepted none is stored.
C37_RejectedProposalChangesNothing ==
    [][/\ (OnProposal /\ accepted' = accepted) =>
            /\ rejected'
            /\ ba' = ba
            /\ IsSome(ba'.proposal) <=> IsSome(ba.proposal)
            /\ woken' = woken
            /\ round' = round
            /\ ba_timeout' = ba_timeout
            /\ ba_registered' = ba_registered
            /\ PollTransitionOp(ba', ba_timeout', block_height')
                 = PollTransitionOp(ba, ba_timeout, block_height)
       /\ accepted = <<>> => IsNone(ba.proposal)]_vars

\* a Proposal was rejected while the task was not scheduled and both sets
\* held messages, and the state is as it was: nothing stored, not woken
C37_Witness ==
    /\ rejected
    /\ accepted = <<>>
    /\ round.name = "BidAggregation"
    /\ ~woken
    /\ IsNone(ba.proposal)
    /\ ba.received_pre_proposals # {}
    /\ ba.pre_proposals_aggregation # {}

\* C34: after restore_checkpoint() returns true, the matcher's indices,
\* outcome vectors, debt, AMM price, AMM outcome and accumulated results
\* equal those stored by the last save_checkpoint (the matcher that was in
\* the checkpoint slot); when no checkpoint is held it returns false and
\* changes nothing.
C34_RestoreReturnsToCheckpoint ==
    [][RestoreCheckpoint =>
         IF IsSome(matcher.checkpoint)
         THEN /\ last' = "restored"
              /\ matcher'.bid_idx = Cp.bid_idx
              /\ matcher'.bid_outcomes = Cp.bid_outcomes
              /\ matcher'.ask_idx = Cp.ask_idx
              /\ matcher'.ask_outcomes = Cp.ask_outcomes
              /\ matcher'.debt = Cp.debt
              /\ matcher'.amm_price = Cp.amm_price
              /\ matcher'.amm_outcome = Cp.amm_outcome
              /\ matcher'.results = Cp.results
         ELSE /\ last' = "not restored"
              /\ matcher' = matcher]_vars

\* the indices (from 0) at which a call changed an outcome vector
WrittenAt(old, new) == {i \in 0..(Len(old) - 1) : new[i + 1] # old[i + 1]}

\* C36: single_match never writes a fill outcome at an index outside the
\* outcome vector (the call does not panic unless next_order did), and it
\* writes a bid (respectively ask) outcome only when the bid (respectively
\* ask) selected in that call is a book order, at that order's index; the
\* ask selected behind a debt ask counts as selected.
C36_WritesOnlySelectedBookOrders ==
    [][SingleMatch =>
         /\ reason' = "Panic" =>
                (SelectedBid.kind = "panic" \/ SelectedAsk.kind = "panic")
         /\ WrittenAt(matcher.bid_outcomes, matcher'.bid_outcomes) # {} =>
                /\ SelectedBid.kind = "order"
                /\ IsBookOrder(SelectedBid.o)
                /\ WrittenAt(matcher.bid_outcomes, matcher'.bid_outcomes)
                     = {SelectedBid.idx}
         /\ WrittenAt(matcher.ask_outcomes, matcher'.ask_outcomes) # {} =>
                /\ SelectedAsk.kind = "order"
                /\ \/ /\ IsBookOrder(SelectedAsk.o)
                      /\ WrittenAt(matcher.ask_outcomes, matcher'.ask_outcomes)
                           = {SelectedAsk.idx}
                   \/ /\ DebtAskBranch
                      /\ IsBookOrder(NextAskNoDebt.o)
                      /\ WrittenAt(matcher.ask_outcomes, matcher'.ask_outcomes)
                           = {NextAskNoDebt.idx}]_vars

(***************************************************************************)
(* Commit's claim on is_for                                                *)
(***************************************************************************)
\* C35: is_for(proposal) returns true only when the commit is associated
\* with that proposal: its block_height equals the proposal's and its
\* preproposal_hash and solution_hash are the hashes from_proposal derives
\* from the proposal's preproposals and solutions.
C35_IsForOnlyItsProposal ==
    IsSome(commit) =>
      \A q \in Proposals :
         IsFor(commit[1], q) =>
           /\ commit[1].block_height = q.block_height
           /\ commit[1].preproposal_hash
                = FromProposal(q, KeyOf(q.source)).preproposal_hash
           /\ commit[1].solution_hash
                = FromProposal(q, KeyOf(q.source)).solution_hash

(***************************************************************************)
(* CanonicalStateAdapter's claims                                          *)
(***************************************************************************)
\* the Range filter [n, n] with the given address and topic sets
RangeFilter(n, address, topics) ==
    [block_option |-> [type |-> "Range",
                       from_block |-> Some([tag |-> "Number", n |-> n]),
                       to_block |-> Some([tag |-> "Number", n |-> n])],
     address |-> address, topics |-> topics]

\* C38: after the stream yielded NewBlock(N) for a Commit notification, the
\* adapter get_logs reads has last_block_number = N and a cache equal to the
\* logs of block N, and get_logs with a range filter [N, N] succeeds and
\* returns the logs of block N that match the filter.
C38_AdapterFollowsNewBlock ==
    (IsSome(yielded) /\ yielded[1].type = "NewBlock") =>
       LET N == yielded[1].number
           logs == LogsOrEmpty(received[1].new, N)
       IN  /\ adapter.last_block_number = N
           /\ adapter.last_logs = logs
           /\ \A address \in {{}, {1}}, topics \in TopicFilters :
                LET filter == RangeFilter(N, address, topics)
                IN  /\ GetLogsOp(adapter, filter).ok
                    /\ GetLogsOp(adapter, filter).logs
                         = SelectSeq(logs, LAMBDA log : LogMatchesFilter(log, filter))

SetMax(S) == CHOOSE x \in S : \A y \in S : x >= y

\* the heights of the window at which the new chain has a block the old chain
\* has not: another block at that height, or none
Differing(old, new) ==
    {n \in new.first..new.last :
       /\ n >= Max2(0, Tip(new) - ReorgDepth)
       /\ \/ n \notin old.first..old.last
          \/ BlockHash(old, n) # BlockHash(new, n)}

ExpectedRange(old, new) ==
    IF Differing(old, new) = {}
    THEN [start |-> Tip(new), end |-> Tip(new)]
    ELSE [start |-> SetMin(Differing(old, new)), end |-> SetMax(Differing(old, new))]

\* C39: for every Reorg notification with new tip T the stream yields
\* Reorg(T, range), the range running from the lowest to the highest block
\* number >= max(0, T - 30) at which the new chain's block differs from the
\* old chain's (new blocks above the old tip included), or T..=T when none
\* differs; the stream does not panic on the window start.
C39_ReorgRangeCoversDifferences ==
    [][(StreamNext /\ received'[1].type = "Reorg") =>
          /\ stream'.pc = "open"
          /\ yielded' = Some(Reorg(Tip(received'[1].new),
                                   ExpectedRange(received'[1].old, received'[1].new)))]_vars

\* the block option names the number n at both ends
BothExplicitly(option, n) ==
    /\ option.from_block = Some([tag |-> "Number", n |-> n])
    /\ option.to_block = Some([tag |-> "Number", n |-> n])

\* C40: get_logs returns InvalidBlockRange for a Range filter unless both
\* from_block and to_block are explicit block numbers equal to the adapter's
\* last_block_number; a rejected call returns no logs and leaves the cache and
\* last_block_number unchanged; an accepted call returns only cached logs
\* whose address matches the filter.
C40_GetLogsChecksRange ==
    [][GetLogs =>
         LET filter == got'[1].filter
             ret == got'[1].ret
         IN  /\ ~ret.ok <=> /\ filter.block_option.type = "Range"
                            /\ ~BothExplicitly(filter.block_option,
                                               adapter.last_block_number)
             /\ ~ret.ok => (ret.err = "InvalidBlockRange" /\ ret.logs = <<>>)
             /\ adapter' = adapter
             /\ ret.ok =>
                  \A i \in 1..Len(ret.logs) :
                     /\ \E j \in 1..Len(adapter.last_logs) :
                           adapter.last_logs[j] = ret.logs[i]
                     /\ FilterSetMatches(filter.address, ret.logs[i].address)]_vars

\* an accepted call with a Range filter that returned one of two cached logs
C40_Witness ==
    /\ IsSome(got)
    /\ got[1].ret.ok
    /\ got[1].filter.block_option.type = "Range"
    /\ Len(adapter.last_logs) = 2
    /\ Len(got[1].ret.logs) = 1

====
